---- MODULE Spec2Model ----
(***************************************************************************)
(* A model of aves_ir: the assembler (src/src/assemble.rs), the bytecode   *)
(* writer (src/src/write_bytecode.rs) and interpret()                      *)
(* (src/src/interpret.rs), which runs the engine in a child process.       *)
(*                                                                         *)
(* Text is a sequence of characters, each a one-character string;         *)
(* a few characters a TLA+ string cannot hold go by name: "NUL" (U+0000),  *)
(* "U+60" (the grave accent) and "U+E9" (a two-byte UTF-8 letter).         *)
(*                                                                         *)
(* A 64-bit integer v is the record [hi |-> h, lo |-> l] with              *)
(* v = h * 2^31 + l and 0 <= l < 2^31: the model checker's integers end at *)
(* 2^31 - 1, and the values of interest lie on both sides of that limit.   *)
(* So v fits i32 exactly when h is -1 or 0, and the low 32 bits of v are   *)
(* l with bit 31 set exactly when h is odd.                                *)
(***************************************************************************)
EXTENDS Integers, Sequences, FiniteSets, TLC

VARIABLES
    \* interpret(): the orchestrator, its writer thread and the engine process
    iProgram,     \* the &[Instruction] passed to interpret()
    engOutLen,    \* bytes the program prints before it stops, if it runs
    engFate,      \* what the engine does once it runs: "finish", "abort", "loop"
    engUtf8,      \* whether the bytes it prints are valid UTF-8
    mainPc,       \* position of the thread that called interpret()
    writerPc,     \* position of the scoped writer thread
    wOutcome,     \* how write_bytecode ended in the writer: "none", "ok", "panic"
    emitted,      \* what write_bytecode(program, ..) writes, and how it ends
    encoded,      \* bytes write_bytecode has handed to the BufWriter
    wbuf,         \* bytes held in the BufWriter
    inPipe,       \* bytes in the engine's stdin pipe
    inClosed,     \* the write end of the stdin pipe is closed
    enginePc,     \* "none", "reading", "running", "exited"
    engRead,      \* bytes the engine has read from its stdin
    engLeft,      \* bytes the engine still has to print
    resultSent,   \* the engine sent its ProgramStack on the result channel
    outPipe,      \* bytes in the engine's stdout pipe
    outClosed,    \* the write end of the stdout pipe is closed
    outRead,      \* bytes of program_output read so far
    joinRes,      \* what child.join() gave: "none", "Ok", "Err"
    result,       \* what interpret() returned: "none", "Ok", "Err"
    failed,       \* the pipe and channel failures met so far
    \* the codec on its own
    cProg,        \* the program being encoded
    cPc,          \* "start", "encoded", "decoded"; of write_bytecode step by
                  \* step: "loop", "returned", "panicked"
    cNext,        \* the instructions of cProg written so far
    cOut,         \* what write_bytecode left in the sink, and how it ended
    cDec,         \* what the decoder made of those bytes
    \* the assembler on its own
    aInput,       \* the text
    aPc,          \* "start", "node", "done", "string", "encoded"
    aNode,        \* the outcome of node(aInput)
    aProgram,     \* the outcome of program(aInput)
    aString,      \* the outcome of string_literal(aInput)
    \* a text assembled, encoded and run by the engine
    rPc,          \* "start", "assembled", "encoded", "running", "done", ..,
                  \* "returned", "errored", "panicked" once interpret is over
    rIp,          \* the engine's instruction pointer, from 1
    rStack,       \* the engine's operand stack, its top last
    rOut,         \* the text the engine has printed
    rFrames,      \* the engine's call stack, its current frame last
    \* the engine's stack handed back: ProgramStack::try_from
    sList,        \* the engine's linked stack, from its head
    sPc,          \* "walk", "free", "collect", "returned"
    sCurr,        \* curr: the position of the node in sList, past it: null
    sItems,       \* stack_items, front first
    sFreed,       \* the calls of free_stack so far
    sResult       \* what try_from returned

ivars == <<iProgram, engOutLen, engFate, engUtf8, mainPc, writerPc, wOutcome,
           emitted, encoded, wbuf, inPipe, inClosed, enginePc, engRead, engLeft,
           resultSent, outPipe, outClosed, outRead, joinRes, result, failed>>
cvars == <<cProg, cPc, cNext, cOut, cDec>>
avars == <<aInput, aPc, aNode, aProgram, aString>>
svars == <<sList, sPc, sCurr, sItems, sFreed, sResult>>
rvars == <<rPc, rIp, rStack, rOut, rFrames, svars>>
vars == <<ivars, cvars, avars, rvars>>

-----------------------------------------------------------------------------
(* Characters *)

UpperLetters ==
    <<"A","B","C","D","E","F","G","H","I","J","K","L","M",
      "N","O","P","Q","R","S","T","U","V","W","X","Y","Z">>
LowerLetters ==
    <<"a","b","c","d","e","f","g","h","i","j","k","l","m",
      "n","o","p","q","r","s","t","u","v","w","x","y","z">>
DigitChars == <<"0","1","2","3","4","5","6","7","8","9">>

\* The printable ASCII characters in code order, from U+0020.
Ascii ==
    <<" ","!","\"","#","$","%","&","'","(",")","*","+",",","-",".","/">>
    \o DigitChars \o <<":",";","<","=",">","?","@">>
    \o UpperLetters \o <<"[","\\","]","^","_","U+60">>
    \o LowerLetters \o <<"{","|","}","~">>

Range(s) == {s[k] : k \in 1..Len(s)}
IndexIn(c, s) == CHOOSE k \in 1..Len(s) : s[k] = c

\* char::to_lowercase, on the characters of the model
to_lowercase(c) ==
    IF c \in Range(UpperLetters) THEN LowerLetters[IndexIn(c, UpperLetters)] ELSE c

\* char::to_digit(10)
IsDigit(c) == c \in Range(DigitChars)
to_digit(c) == IndexIn(c, DigitChars) - 1

\* char::is_alphanumeric is Unicode's: a non-ASCII letter counts.
is_alphanumeric(c) ==
    c \in Range(UpperLetters) \cup Range(LowerLetters) \cup Range(DigitChars) \cup {"U+E9"}

\* The UTF-8 bytes of one character.
Utf8(c) ==
    CASE c = "NUL" -> <<0>>
      [] c = "\t" -> <<9>>
      [] c = "\n" -> <<10>>
      [] c = "\r" -> <<13>>
      [] c = "U+E9" -> <<195, 169>>
      [] OTHER -> <<31 + IndexIn(c, Ascii)>>

RECURSIVE as_bytes(_)
as_bytes(s) == IF s = <<>> THEN <<>> ELSE Utf8(Head(s)) \o as_bytes(Tail(s))

Drop(s, n) == SubSeq(s, n + 1, Len(s))
Take(s, n) == SubSeq(s, 1, n)

-----------------------------------------------------------------------------
(* The IR: src/src/ir_definition.rs *)

\* An i64 or u64 from a small integer of the model.
I64(n) == IF n >= 0 THEN [hi |-> 0, lo |-> n]
                    ELSE [hi |-> -1, lo |-> (n + 2147483647) + 1]

Nop == [op |-> "Nop"]
Iconst(v) == [op |-> "Iconst", num |-> v]
Sconst(s) == [op |-> "Sconst", text |-> s]
NoArg(o) == [op |-> o]
ReserveString(n, sz, init) ==
    [op |-> "ReserveString", size |-> sz, name |-> n, initial_value |-> init]
ReserveInt(n) == [op |-> "ReserveInt", name |-> n]
Read(n) == [op |-> "Read", name |-> n]
Write(n) == [op |-> "Write", name |-> n]
ArgLocalRead(v) == [op |-> "ArgLocalRead", index |-> v]
ArgLocalWrite(v) == [op |-> "ArgLocalWrite", index |-> v]
Label(n) == [op |-> "Label", label |-> n]
Jump(n) == [op |-> "Jump", label |-> n]
BranchZero(n) == [op |-> "BranchZero", label |-> n]
Function(n, v) == [op |-> "Function", label |-> n, num_locs |-> v]
Call(n, v) == [op |-> "Call", label |-> n, num_args |-> v]
Ret == [op |-> "Ret"]
Intrinsic(k) == [op |-> "Intrinsic", intrinsic |-> k]
Push(v) == [op |-> "Push", reg |-> v]
Pop(v) == [op |-> "Pop", reg |-> v]

NoArgOps == {"Nop", "Add", "Sub", "Mul", "Div", "Mod", "Bor", "Band", "Xor",
             "Or", "And", "Eq", "Lt", "Gt", "Not", "Ret"}

-----------------------------------------------------------------------------
(* The bytecode writer: src/src/write_bytecode.rs *)

\* The opcode tags and intrinsic codes of the engine's header, ir.h, which
\* bindgen turns into the u32 constants ir_op_ir_* and intrinsic_intrinsic_*.
\* ReserveInt and ReserveString share ir_op_ir_reserve.
OpOrder ==
    <<"Nop", "Iconst", "Sconst", "Add", "Sub", "Mul", "Div", "Mod", "Bor",
      "Band", "Xor", "Or", "And", "Eq", "Lt", "Gt", "Not", "Reserve", "Read",
      "Write", "ArgLocalRead", "ArgLocalWrite", "Label", "Jump", "BranchZero",
      "Function", "Call", "Ret", "Intrinsic", "Push", "Pop">>
TagName(o) == IF o \in {"ReserveString", "ReserveInt"} THEN "Reserve" ELSE o
ir_op(o) == IndexIn(TagName(o), OpOrder) - 1
IntrinsicOrder == <<"PrintInt", "PrintString", "Exit">>
\* The codes taken in the reverse order.
intrinsic_code_reversed(k) == Len(IntrinsicOrder) - IndexIn(k, IntrinsicOrder)
intrinsic_code(k) == IndexIn(k, IntrinsicOrder) - 1

\* The same word with its bytes in big-endian order.
to_be_bytes(top, low) ==
    << (low \div 16777216) + (IF top THEN 128 ELSE 0), (low \div 65536) % 256,
       (low \div 256) % 256, low % 256 >>

\* The four little-endian bytes of a 32-bit word: its low 31 bits and bit 31.
to_le_bytes(top, low) ==
    << low % 256, (low \div 256) % 256, (low \div 65536) % 256,
       (low \div 16777216) + (IF top THEN 128 ELSE 0) >>

\* The sink `out` and how the writing has gone: "ok", "panic" once an
\* operand did not fit, "err" once a write failed.  A Vec<u8> takes it all.
NewSink == [out |-> <<>>, st |-> "ok"]
\* A sink that takes n bytes and fails from then on.
SinkOfRoom(n) == [out |-> <<>>, st |-> "ok", room |-> n]
\* out.write_all(bytes): the bytes the sink takes are written, and the first
\* it does not take is the error.
write_all(bytes, acc) ==
    IF acc.st # "ok" THEN acc
    ELSE IF "room" \in DOMAIN acc /\ Len(acc.out) + Len(bytes) > acc.room
    THEN [acc EXCEPT !.out = @ \o SubSeq(bytes, 1, acc.room - Len(@)),
                     !.st = "err"]
    ELSE [acc EXCEPT !.out = @ \o bytes]
Panic(acc) == IF acc.st = "ok" THEN [acc EXCEPT !.st = "panic"] ELSE acc

\* impl WriteBytecode for i32, on an i32 of the model's own integers
WriteI32(x, acc) ==
    write_all(IF x >= 0 THEN to_le_bytes(FALSE, x)
                        ELSE to_le_bytes(TRUE, (x + 2147483647) + 1), acc)

\* impl WriteBytecode for u32
WriteU32(x, acc) == write_all(to_le_bytes(FALSE, x), acc)

\* i32::try_from(i64): Some exactly on -2^31 .. 2^31 - 1
FitsI32(v) == v.hi \in {-1, 0}

\* i32::try_from(u64): Some exactly on 0 .. 2^31 - 1
UFitsI32(v) == v.hi = 0

\* The cast `v as i32` of dump_bytecode.rs keeps the low 32 bits.
WriteI64Wrapping(v, acc) == write_all(to_le_bytes(v.hi % 2 = 1, v.lo), acc)

\* impl WriteBytecode for i64
WriteI64(v, acc) ==
    IF FitsI32(v) THEN write_all(to_le_bytes(v.hi = -1, v.lo), acc)
                  ELSE Panic(acc)

\* impl WriteBytecode for u64
WriteU64(v, acc) ==
    IF UFitsI32(v) THEN write_all(to_le_bytes(FALSE, v.lo), acc)
                   ELSE Panic(acc)

\* A string written without the terminator's +1 in its length.
WriteStrNoPlusOne(s, acc) ==
    LET raw_bytes == as_bytes(s)
    IN write_all(<<0>>, write_all(raw_bytes, WriteI32(Len(raw_bytes), acc)))

\* impl WriteBytecode for &str
WriteStr(s, acc) ==
    LET raw_bytes == as_bytes(s)
        length_including_null_terminator == Len(raw_bytes) + 1
    IN IF length_including_null_terminator > 2147483647
       THEN Panic(acc)
       ELSE write_all(<<0>>, write_all(raw_bytes,
                WriteI32(length_including_null_terminator, acc)))

\* impl WriteBytecode for Label
WriteLabel(name, acc) == WriteStr(name, acc)

\* impl WriteBytecode for Intrinsic
WriteIntrinsic(k, acc) == WriteU32(intrinsic_code(k), acc)

\* The tag of an instruction, first of its bytes.
WriteTag(i, acc) == WriteU32(ir_op(i.op), acc)

\* ReserveInt written as a ReserveString with an empty initial value.
WriteReserveIntAsEmptyString(i, acc) ==
    WriteI32(4, WriteStr(<<>>, WriteStr(i.name, WriteTag(i, acc))))

\* The ReserveInt arm: the name, the length 0 with no payload, the size 4.
WriteReserveInt(i, acc) ==
    WriteI32(4, WriteI32(0, WriteStr(i.name, WriteTag(i, acc))))

\* impl WriteBytecode for Instruction
WriteInstruction(i, acc) ==
    CASE i.op \in NoArgOps -> WriteTag(i, acc)
      [] i.op = "Iconst" -> WriteI64(i.num, WriteTag(i, acc))
      [] i.op = "Sconst" -> WriteStr(i.text, WriteTag(i, acc))
      [] i.op = "ReserveString" ->
            WriteU64(i.size, WriteStr(i.initial_value,
                WriteStr(i.name, WriteTag(i, acc))))
      [] i.op = "ReserveInt" -> WriteReserveInt(i, acc)
      [] i.op \in {"Read", "Write"} -> WriteStr(i.name, WriteTag(i, acc))
      [] i.op \in {"ArgLocalRead", "ArgLocalWrite"} ->
            WriteU64(i.index, WriteTag(i, acc))
      [] i.op \in {"Label", "Jump", "BranchZero"} ->
            WriteLabel(i.label, WriteTag(i, acc))
      [] i.op = "Function" ->
            WriteU64(i.num_locs, WriteLabel(i.label, WriteTag(i, acc)))
      [] i.op = "Call" ->
            WriteU64(i.num_args, WriteLabel(i.label, WriteTag(i, acc)))
      [] i.op = "Intrinsic" -> WriteIntrinsic(i.intrinsic, WriteTag(i, acc))
      [] i.op \in {"Push", "Pop"} -> WriteI64(i.reg, WriteTag(i, acc))

\* write_bytecode(program, out): the instructions in order, stopping at the
\* first that fails.
RECURSIVE write_bytecode(_, _)
write_bytecode(prog, acc) ==
    IF prog = <<>> \/ acc.st # "ok" THEN acc
    ELSE write_bytecode(Tail(prog), WriteInstruction(Head(prog), acc))

-----------------------------------------------------------------------------
(* The decoder of the bytecode format (the engine's ir_list_read): the     *)
(* inverse reading rules of the format description.                         *)

DecodeError == [k |-> "err"]

\* A 4-byte signed little-endian integer.
ReadI32(b) ==
    IF Len(b) < 4 THEN DecodeError
    ELSE [k |-> "ok",
          val |-> [hi |-> IF b[4] >= 128 THEN -1 ELSE 0,
                   lo |-> b[1] + 256 * b[2] + 65536 * b[3]
                          + 16777216 * (b[4] % 128)],
          rest |-> Drop(b, 4)]

\* The characters of UTF-8 bytes.
RECURSIVE from_utf8(_)
from_utf8(b) ==
    IF b = <<>> THEN <<>>
    ELSE IF Len(b) >= 2 /\ b[1] = 195 /\ b[2] = 169
         THEN <<"U+E9">> \o from_utf8(Drop(b, 2))
    ELSE LET c == CASE b[1] = 0 -> "NUL"
                    [] b[1] = 9 -> "\t"
                    [] b[1] = 10 -> "\n"
                    [] b[1] = 13 -> "\r"
                    [] b[1] \in 32..126 -> Ascii[b[1] - 31]
                    [] OTHER -> "U+FFFD"
         IN <<c>> \o from_utf8(Tail(b))

\* A string: its length with the terminator, its bytes, the terminator.
\* A length of 0 or less, or fewer bytes than the length, is fatal.
ReadStr(b) ==
    LET n == ReadI32(b)
    IN IF n.k = "err" THEN DecodeError
       ELSE IF n.val.hi # 0 \/ n.val.lo = 0 \/ Len(n.rest) < n.val.lo
            THEN DecodeError
       ELSE [k |-> "ok", val |-> from_utf8(Take(n.rest, n.val.lo - 1)),
             rest |-> Drop(n.rest, n.val.lo)]

\* The operands of a Reserve: a length of 0 after the name is the sentinel
\* of ReserveInt, anything else is the initial value of a ReserveString.
ReadReserve(b) ==
    LET name == ReadStr(b)
        len == IF name.k = "ok" THEN ReadI32(name.rest) ELSE DecodeError
    IN IF len.k = "err" THEN DecodeError
       ELSE IF len.val = [hi |-> 0, lo |-> 0]
       THEN LET size == ReadI32(len.rest)
            IN IF size.k = "err" THEN DecodeError
               ELSE [k |-> "ok", val |-> ReserveInt(name.val), rest |-> size.rest]
       ELSE LET init == ReadStr(name.rest)
                size == IF init.k = "ok" THEN ReadI32(init.rest) ELSE DecodeError
            IN IF size.k = "err" THEN DecodeError
               ELSE [k |-> "ok",
                     val |-> ReserveString(name.val, size.val, init.val),
                     rest |-> size.rest]

\* One integer operand, one string operand, a string and then an integer.
ReadIntOperand(o, field, b) ==
    LET v == ReadI32(b)
    IN IF v.k = "err" THEN DecodeError
       ELSE [k |-> "ok", val |-> (field :> v.val) @@ [op |-> o], rest |-> v.rest]
ReadStrOperand(o, field, b) ==
    LET v == ReadStr(b)
    IN IF v.k = "err" THEN DecodeError
       ELSE [k |-> "ok", val |-> (field :> v.val) @@ [op |-> o], rest |-> v.rest]
ReadStrIntOperands(o, field, b) ==
    LET l == ReadStr(b)
        v == IF l.k = "ok" THEN ReadI32(l.rest) ELSE DecodeError
    IN IF v.k = "err" THEN DecodeError
       ELSE [k |-> "ok",
             val |-> (field :> v.val) @@ [op |-> o, label |-> l.val],
             rest |-> v.rest]
ReadIntrinsic(b) ==
    LET v == ReadI32(b)
    IN IF v.k = "err" THEN DecodeError
       ELSE IF v.val.hi # 0 \/ v.val.lo >= Len(IntrinsicOrder) THEN DecodeError
       ELSE [k |-> "ok", val |-> Intrinsic(IntrinsicOrder[v.val.lo + 1]),
             rest |-> v.rest]

\* One instruction: the tag, then the operands the tag calls for.
decode_instruction(b) ==
    LET t == ReadI32(b)
    IN IF t.k = "err" THEN DecodeError
       ELSE IF t.val.hi # 0 \/ t.val.lo >= Len(OpOrder) THEN DecodeError
       ELSE LET o == OpOrder[t.val.lo + 1]
                r == t.rest
            IN CASE o \in NoArgOps -> [k |-> "ok", val |-> [op |-> o], rest |-> r]
                 [] o = "Iconst" -> ReadIntOperand(o, "num", r)
                 [] o = "Sconst" -> ReadStrOperand(o, "text", r)
                 [] o = "Reserve" -> ReadReserve(r)
                 [] o \in {"Read", "Write"} -> ReadStrOperand(o, "name", r)
                 [] o \in {"ArgLocalRead", "ArgLocalWrite"} ->
                        ReadIntOperand(o, "index", r)
                 [] o \in {"Label", "Jump", "BranchZero"} ->
                        ReadStrOperand(o, "label", r)
                 [] o = "Function" -> ReadStrIntOperands(o, "num_locs", r)
                 [] o = "Call" -> ReadStrIntOperands(o, "num_args", r)
                 [] o = "Intrinsic" -> ReadIntrinsic(r)
                 [] o \in {"Push", "Pop"} -> ReadIntOperand(o, "reg", r)

\* The whole stream, to its end.
RECURSIVE decode_program(_)
decode_program(b) ==
    IF b = <<>> THEN [k |-> "ok", prog |-> <<>>]
    ELSE LET i == decode_instruction(b)
         IN IF i.k = "err" THEN DecodeError
            ELSE LET more == decode_program(i.rest)
                 IN IF more.k = "err" THEN DecodeError
                    ELSE [k |-> "ok", prog |-> <<i.val>> \o more.prog]

-----------------------------------------------------------------------------
(* The parts of the state a specification does not use stand still. *)

IdleInterpret ==
    /\ iProgram = <<>> /\ engOutLen = 0 /\ engFate = "finish" /\ engUtf8 = TRUE
    /\ mainPc = "idle" /\ writerPc = "idle" /\ wOutcome = "none"
    /\ emitted = NewSink
    /\ encoded = 0 /\ wbuf = 0 /\ inPipe = 0 /\ inClosed = FALSE
    /\ enginePc = "none" /\ engRead = 0 /\ engLeft = 0 /\ resultSent = FALSE
    /\ outPipe = 0 /\ outClosed = FALSE /\ outRead = 0
    /\ joinRes = "none" /\ result = "none" /\ failed = {}
IdleCodec ==
    /\ cProg = <<>> /\ cPc = "idle" /\ cOut = NewSink /\ cDec = [k |-> "none"]
    /\ cNext = 0
IdleAssembler ==
    /\ aInput = <<>> /\ aPc = "idle" /\ aNode = [k |-> "none"]
    /\ aProgram = [k |-> "none"] /\ aString = [k |-> "none"]
IdleStack ==
    /\ sList = <<>> /\ sPc = "idle" /\ sCurr = 0 /\ sItems = <<>>
    /\ sFreed = 0 /\ sResult = [k |-> "none"]
IdleRun ==
    /\ rPc = "idle" /\ rIp = 0 /\ rStack = <<>> /\ rOut = <<>>
    /\ rFrames = <<>> /\ IdleStack

-----------------------------------------------------------------------------
(* The codec on its own: a program is encoded into a Vec<u8>, which never  *)
(* fails a write, and the bytes are decoded.                                *)

HiSpan == 2
MaxCodecProgLen == 2

LoSamples == {0, 1, 4, 255, 256, 65536, 16777216, 2147483647}
I64Samples == [hi : -HiSpan..HiSpan, lo : LoSamples]
U64Samples == [hi : 0..HiSpan, lo : LoSamples]
StrSamples == { <<>>, <<"a">>, <<"L", "0">>, <<"U+E9">>, <<"a", "NUL", "b">>,
                <<"\"", "\\">> }
NameSamples == { <<"x">>, <<"L", "0">>, <<"$", "_", "U+E9">> }
RegSamples == {v \in I64Samples : v.lo \in {0, 1, 2147483647}}
SizeSamples == {v \in U64Samples : v.lo \in {0, 4, 2147483647}}

CodecInstrs ==
    {NoArg(o) : o \in NoArgOps}
    \cup {Iconst(v) : v \in I64Samples}
    \cup {Sconst(t) : t \in StrSamples}
    \cup {ReserveString(n, v, t) : n \in NameSamples, v \in SizeSamples, t \in StrSamples}
    \cup {ReserveInt(n) : n \in NameSamples}
    \cup {Read(n) : n \in NameSamples} \cup {Write(n) : n \in NameSamples}
    \cup {ArgLocalRead(v) : v \in U64Samples}
    \cup {ArgLocalWrite(v) : v \in SizeSamples}
    \cup {Label(n) : n \in NameSamples} \cup {Jump(n) : n \in NameSamples}
    \cup {BranchZero(n) : n \in NameSamples}
    \cup {Function(n, v) : n \in NameSamples, v \in SizeSamples}
    \cup {Call(n, v) : n \in NameSamples, v \in SizeSamples}
    \cup {Intrinsic(k) : k \in Range(IntrinsicOrder)}
    \cup {Push(v) : v \in RegSamples} \cup {Pop(v) : v \in RegSamples}

\* The instructions longer programs are made of.
SeqInstrs ==
    { Nop, Iconst(I64(5)), Iconst([hi |-> 1, lo |-> 0]), Label(<<"L", "0">>),
      ReserveInt(<<"x">>), ReserveString(<<"x">>, I64(4), <<>>) }

RECURSIVE SeqsUpTo(_, _)
SeqsUpTo(S, n) ==
    IF n = 0 THEN {<<>>}
    ELSE LET shorter == SeqsUpTo(S, n - 1)
         IN shorter \cup {Append(q, x) : q \in {r \in shorter : Len(r) = n - 1}, x \in S}

CodecPrograms ==
    {<<i>> : i \in CodecInstrs} \cup SeqsUpTo(SeqInstrs, MaxCodecProgLen)

InitCodec ==
    /\ cProg \in CodecPrograms
    /\ cPc = "start" /\ cOut = NewSink /\ cDec = [k |-> "none"]
    /\ cNext = 0
    /\ IdleInterpret /\ IdleAssembler /\ IdleRun

\* write_bytecode(&cProg, &mut Vec::new())
Encode ==
    /\ cPc = "start"
    /\ cOut' = write_bytecode(cProg, NewSink)
    /\ cPc' = "encoded"
    /\ UNCHANGED <<cProg, cNext, cDec, ivars, avars, rvars>>

\* The bytes now in the sink are read back.
Decode ==
    /\ cPc = "encoded"
    /\ cDec' = decode_program(cOut.out)
    /\ cPc' = "decoded"
    /\ UNCHANGED <<cProg, cNext, cOut, ivars, avars, rvars>>

NextCodec == Encode \/ Decode
SpecCodec == InitCodec /\ [][NextCodec]_vars

-----------------------------------------------------------------------------
(* Properties of the codec *)

EncodedOne == cPc \in {"encoded", "decoded"} /\ Len(cProg) = 1

\* The integer operand of an instruction that has one, and the strings
\* written before it.
IntOperandOps == {"Iconst", "ArgLocalRead", "ArgLocalWrite", "Function", "Call",
                  "ReserveString", "Push", "Pop"}
IntOperand(i) ==
    CASE i.op = "Iconst" -> i.num
      [] i.op \in {"ArgLocalRead", "ArgLocalWrite"} -> i.index
      [] i.op = "Function" -> i.num_locs
      [] i.op = "Call" -> i.num_args
      [] i.op = "ReserveString" -> i.size
      [] i.op \in {"Push", "Pop"} -> i.reg
StringOperands(i) ==
    CASE i.op = "Sconst" -> <<i.text>>
      [] i.op = "ReserveString" -> <<i.name, i.initial_value>>
      [] i.op \in {"ReserveInt", "Read", "Write"} -> <<i.name>>
      [] i.op \in {"Label", "Jump", "BranchZero", "Function", "Call"} -> <<i.label>>
      [] OTHER -> <<>>

\* -2^31 <= v <= 2^31 - 1
InWireRange(v) == -1 <= v.hi /\ v.hi <= 0
OperandsFit(i) == i.op \in IntOperandOps => InWireRange(IntOperand(i))

\* The value of four bytes read as a signed little-endian integer.
LeSigned(b) ==
    [hi |-> IF b[4] >= 128 THEN -1 ELSE 0,
     lo |-> b[1] + b[2] * 256 + b[3] * 65536 + (b[4] % 128) * 16777216]

\* The wire form of a string of n bytes: n + 1, the bytes, a NUL.
StrWire(t) ==
    LET raw == as_bytes(t)
        n == Len(raw)
    IN << (n + 1) % 256, ((n + 1) \div 256) % 256, ((n + 1) \div 65536) % 256,
          (n + 1) \div 16777216 >> \o raw \o <<0>>
RECURSIVE StrWires(_)
StrWires(ts) == IF ts = <<>> THEN <<>> ELSE StrWire(Head(ts)) \o StrWires(Tail(ts))

\* C5: decoding the bytes write_bytecode emits for a program whose integer
\* operands all lie in the wire's 32-bit signed range gives back the same
\* instructions in the same order; in particular every single instruction,
\* whatever its variant, decodes to itself.
C5_RoundTrip ==
    (cPc = "decoded" /\ \A k \in 1..Len(cProg) : OperandsFit(cProg[k]))
    => /\ cOut.st = "ok"
       /\ cDec = [k |-> "ok", prog |-> cProg]
C5_Witness ==
    /\ cPc = "decoded" /\ Len(cProg) = 2
    /\ cProg[1].op = "ReserveInt" /\ cProg[2].op = "ReserveString"
    /\ cProg[2].initial_value = <<>>
    /\ cDec = [k |-> "ok", prog |-> cProg]

\* C6: an integer operand in -2^31 .. 2^31 - 1 is written as exactly its
\* value, four signed little-endian bytes after the tag and the strings; for
\* a value outside that range the encode fails and the sink holds nothing
\* past the tag and the strings: no byte of a wrapped operand.
C6_IntegerOperand ==
    (EncodedOne /\ cProg[1].op \in IntOperandOps)
    => LET i == cProg[1]
           v == IntOperand(i)
           before == 4 + Len(StrWires(StringOperands(i)))
       IN IF InWireRange(v)
          THEN /\ cOut.st = "ok"
               /\ Len(cOut.out) = before + 4
               /\ LeSigned(Drop(cOut.out, before)) = v
          ELSE /\ cOut.st = "panic"
               /\ Len(cOut.out) = before
C6_Witness ==
    /\ EncodedOne /\ cProg[1] = Iconst([hi |-> 1, lo |-> 0])
    /\ cOut.st = "panic" /\ Len(cOut.out) = 4

\* C7: each string operand of n bytes appears after the tag as n + 5 bytes:
\* the 4-byte little-endian n + 1, the n bytes unchanged, one NUL byte; the
\* empty string as the length 1 and a NUL.
C7_StringOperand ==
    (EncodedOne /\ StringOperands(cProg[1]) # <<>>)
    => LET ts == StringOperands(cProg[1])
           ws == StrWires(ts)
       IN /\ SubSeq(cOut.out, 5, 4 + Len(ws)) = ws
          /\ \A j \in 1..Len(ts) : Len(StrWire(ts[j])) = Len(as_bytes(ts[j])) + 5
          /\ (cProg[1].op \notin IntOperandOps /\ cProg[1].op # "ReserveInt")
                => Len(cOut.out) = 4 + Len(ws)
C7_Witness ==
    /\ EncodedOne /\ cProg[1] = Sconst(<<>>)
    /\ Drop(cOut.out, 4) = <<1, 0, 0, 0, 0>>

\* C8: ReserveInt is the tag, the name, the integer 0 and the integer 4;
\* ReserveString is the same tag, the name, the initial value and the size.
\* So no ReserveString, not even one with an empty initial value and size 4,
\* is encoded as a ReserveInt is: after the name stands 0 for the one and a
\* length of at least 1 for the other.
ReserveStringSamples == {i \in CodecInstrs : i.op = "ReserveString"}
C8_Reserve ==
    /\ (EncodedOne /\ cProg[1].op = "ReserveInt")
       => LET name == StrWire(cProg[1].name)
              after == 4 + Len(name)
          IN /\ cOut.st = "ok"
             /\ SubSeq(cOut.out, 5, after) = name
             /\ Drop(cOut.out, after) = <<0, 0, 0, 0, 4, 0, 0, 0>>
             /\ \A s \in ReserveStringSamples :
                  LET e == write_bytecode(<<s>>, NewSink)
                  IN /\ Take(e.out, 4) = Take(cOut.out, 4)
                     /\ e.out # cOut.out
    /\ (EncodedOne /\ cProg[1].op = "ReserveString")
       => LET name == StrWire(cProg[1].name)
              init == StrWire(cProg[1].initial_value)
              after == 4 + Len(name)
          IN /\ SubSeq(cOut.out, 5, after + Len(init)) = name \o init
             /\ LeSigned(SubSeq(cOut.out, after + 1, after + 4)).lo >= 1
             /\ cOut.st = "ok" =>
                  /\ Len(cOut.out) = after + Len(init) + 4
                  /\ LeSigned(Drop(cOut.out, after + Len(init))) = cProg[1].size
C8_Witness ==
    /\ EncodedOne
    /\ cProg[1] = ReserveString(<<"x">>, I64(4), <<>>)
    /\ cOut.out # write_bytecode(<<ReserveInt(<<"x">>)>>, NewSink).out
    /\ Take(cOut.out, 4) = Take(write_bytecode(<<ReserveInt(<<"x">>)>>, NewSink).out, 4)

-----------------------------------------------------------------------------
(* interpret(): src/src/interpret.rs.  Three sequential processes: the     *)
(* thread that calls interpret(), the scoped thread that writes the         *)
(* bytecode, and the engine in the child process.  They share two pipes of  *)
(* PipeCap bytes; the writer reaches its pipe through a BufWriter of BufCap *)
(* bytes.  Bytes move one at a time.  What the engine prints and how it     *)
(* ends are inputs: the IR program decides them.                            *)

PipeCap == 2
BufCap == 2
MaxOut == 3

TwoPow31 == [hi |-> 1, lo |-> 0]
InterpPrograms ==
    { <<>>, <<Nop>>, <<Iconst(I64(5))>>, <<Nop, Nop>>,
      <<Iconst(TwoPow31)>>, <<Nop, Iconst(TwoPow31)>> }

Over == {"returned", "panicked"}
WriterOver == {"done", "panicked"}

InitInterpret ==
    /\ iProgram \in InterpPrograms
    /\ engOutLen \in 0..MaxOut
    /\ engFate \in {"finish", "abort", "loop"}
    /\ engUtf8 \in BOOLEAN
    /\ emitted = write_bytecode(iProgram, NewSink)
    /\ mainPc = "spawn" /\ writerPc = "idle" /\ wOutcome = "none"
    /\ encoded = 0 /\ wbuf = 0 /\ inPipe = 0 /\ inClosed = FALSE
    /\ enginePc = "none" /\ engRead = 0 /\ engLeft = 0 /\ resultSent = FALSE
    /\ outPipe = 0 /\ outClosed = FALSE /\ outRead = 0
    /\ joinRes = "none" /\ result = "none" /\ failed = {}
    /\ IdleCodec /\ IdleAssembler /\ IdleRun

inputs == <<iProgram, engOutLen, engFate, engUtf8, emitted, cvars, avars, rvars>>

\* child_builder.spawn(..): the engine starts, reading its stdin.
MainSpawn ==
    /\ mainPc = "spawn"
    /\ mainPc' = "scope"
    /\ enginePc' = "reading"
    /\ UNCHANGED <<inputs, writerPc, wOutcome, encoded, wbuf, inPipe, inClosed,
                   engRead, engLeft, resultSent, outPipe, outClosed, outRead,
                   joinRes, result, failed>>

\* scope.spawn(..): the writer thread starts.
MainSpawnWriter ==
    /\ mainPc = "scope"
    /\ mainPc' = "read"
    /\ writerPc' = "encode"
    /\ UNCHANGED <<inputs, wOutcome, encoded, wbuf, inPipe, inClosed, enginePc,
                   engRead, engLeft, resultSent, outPipe, outClosed, outRead,
                   joinRes, result, failed>>

\* A read that took an empty pipe for end-of-stream would end the draining
\* while the engine still prints.
AtEofOnEmpty == outPipe = 0

\* End-of-stream on the engine's stdout: nothing buffered, write end closed.
AtEof == outPipe = 0 /\ outClosed

\* An orchestrator that drained the output only once the engine is gone:
\* the engine waits on its full stdout pipe and never goes.
MainReadAfterExit ==
    /\ mainPc = "read"
    /\ enginePc = "exited"
    /\ \/ /\ outPipe > 0
          /\ outPipe' = outPipe - 1
          /\ outRead' = outRead + 1
          /\ UNCHANGED <<mainPc, failed>>
       \/ /\ AtEof
          /\ IF engUtf8 \/ outRead = 0
             THEN mainPc' = "join" /\ UNCHANGED failed
             ELSE mainPc' = "unwind" /\ failed' = failed \cup {"read"}
          /\ UNCHANGED <<outPipe, outRead>>
    /\ UNCHANGED <<inputs, writerPc, wOutcome, encoded, wbuf, inPipe, inClosed,
                   enginePc, engRead, engLeft, resultSent, outClosed, joinRes,
                   result>>

\* read_to_string(&mut program_output).expect(..): a byte at a time to
\* end-of-stream; bytes that are not UTF-8 are an error, and expect panics.
MainRead ==
    /\ mainPc = "read"
    /\ \/ /\ outPipe > 0
          /\ outPipe' = outPipe - 1
          /\ outRead' = outRead + 1
          /\ UNCHANGED <<mainPc, failed>>
       \/ /\ AtEof
          /\ IF engUtf8 \/ outRead = 0
             THEN mainPc' = "join" /\ UNCHANGED failed
             ELSE mainPc' = "unwind" /\ failed' = failed \cup {"read"}
          /\ UNCHANGED <<outPipe, outRead>>
    /\ UNCHANGED <<inputs, writerPc, wOutcome, encoded, wbuf, inPipe, inClosed,
                   enginePc, engRead, engLeft, resultSent, outClosed, joinRes,
                   result>>

\* child.join(): the result the engine sent, or an error once it is gone
\* without having sent one.
MainJoin ==
    /\ mainPc = "join"
    /\ enginePc = "exited"
    /\ joinRes' = IF resultSent THEN "Ok" ELSE "Err"
    /\ failed' = IF resultSent THEN failed ELSE failed \cup {"join"}
    /\ mainPc' = "scope_end"
    /\ UNCHANGED <<inputs, writerPc, wOutcome, encoded, wbuf, inPipe, inClosed,
                   enginePc, engRead, engLeft, resultSent, outPipe, outClosed,
                   outRead, result>>

\* The end of thread::scope waits for the writer and panics if it panicked;
\* otherwise `?` returns the error of join, or Ok((program_output, stack)).
MainScopeEnd ==
    /\ mainPc = "scope_end"
    /\ writerPc \in WriterOver
    /\ IF writerPc = "panicked"
       THEN mainPc' = "panicked" /\ UNCHANGED result
       ELSE mainPc' = "returned" /\ result' = joinRes
    /\ UNCHANGED <<inputs, writerPc, wOutcome, encoded, wbuf, inPipe, inClosed,
                   enginePc, engRead, engLeft, resultSent, outPipe, outClosed,
                   outRead, joinRes, failed>>

\* A panic inside the scope's closure: the scope still waits for the writer,
\* then the panic leaves interpret().
MainUnwind ==
    /\ mainPc = "unwind"
    /\ writerPc \in WriterOver
    /\ mainPc' = "panicked"
    /\ UNCHANGED <<inputs, writerPc, wOutcome, encoded, wbuf, inPipe, inClosed,
                   enginePc, engRead, engLeft, resultSent, outPipe, outClosed,
                   outRead, joinRes, result, failed>>

\* write_bytecode(program, &mut BufWriter::new(child_stdin)).expect(..): the
\* next byte goes into the BufWriter, which is flushed first when it is full;
\* after the last byte, or at the panic of an operand that does not fit, the
\* BufWriter is dropped.
WriterEncode ==
    /\ writerPc = "encode"
    /\ IF encoded < Len(emitted.out)
       THEN IF wbuf < BufCap
            THEN encoded' = encoded + 1 /\ wbuf' = wbuf + 1
                 /\ UNCHANGED <<writerPc, wOutcome>>
            ELSE writerPc' = "flush" /\ UNCHANGED <<encoded, wbuf, wOutcome>>
       ELSE writerPc' = "drop" /\ wOutcome' = emitted.st
            /\ UNCHANGED <<encoded, wbuf>>
    /\ UNCHANGED <<inputs, mainPc, inPipe, inClosed, enginePc, engRead, engLeft,
                   resultSent, outPipe, outClosed, outRead, joinRes, result,
                   failed>>

\* BufWriter::flush_buf inside a write: a write to a pipe whose reader is gone
\* fails, write_bytecode returns the error and expect panics.
WriterFlush ==
    /\ writerPc = "flush"
    /\ \/ /\ wbuf = 0
          /\ writerPc' = "encode"
          /\ UNCHANGED <<wbuf, inPipe, wOutcome, failed>>
       \/ /\ wbuf > 0 /\ enginePc # "exited" /\ inPipe < PipeCap
          /\ wbuf' = wbuf - 1 /\ inPipe' = inPipe + 1
          /\ UNCHANGED <<writerPc, wOutcome, failed>>
       \/ /\ wbuf > 0 /\ enginePc = "exited"
          /\ failed' = failed \cup {"write"}
          /\ wOutcome' = "panic"
          /\ writerPc' = "drop"
          /\ UNCHANGED <<wbuf, inPipe>>
    /\ UNCHANGED <<inputs, mainPc, encoded, inClosed, enginePc, engRead,
                   engLeft, resultSent, outPipe, outClosed, outRead, joinRes,
                   result>>

\* A drop that closed the pipe over what the BufWriter still holds.
WriterDropUnflushed ==
    /\ writerPc = "drop"
    /\ inClosed' = TRUE
    /\ writerPc' = "closed"
    /\ UNCHANGED <<wbuf, inPipe, failed>>
    /\ UNCHANGED <<inputs, mainPc, wOutcome, encoded, enginePc, engRead,
                   engLeft, resultSent, outPipe, outClosed, outRead, joinRes,
                   result>>

\* The drop of the BufWriter, at the end of the statement or while the panic
\* unwinds: what it holds is flushed, a failure of that flush is ignored, and
\* the drop of child_stdin closes the pipe.
WriterDrop ==
    /\ writerPc = "drop"
    /\ \/ /\ wbuf = 0
          /\ inClosed' = TRUE
          /\ writerPc' = "closed"
          /\ UNCHANGED <<wbuf, inPipe, failed>>
       \/ /\ wbuf > 0 /\ enginePc # "exited" /\ inPipe < PipeCap
          /\ wbuf' = wbuf - 1 /\ inPipe' = inPipe + 1
          /\ UNCHANGED <<writerPc, inClosed, failed>>
       \/ /\ wbuf > 0 /\ enginePc = "exited"
          /\ failed' = failed \cup {"flush_on_drop"}
          /\ wbuf' = 0
          /\ UNCHANGED <<writerPc, inClosed, inPipe>>
    /\ UNCHANGED <<inputs, mainPc, wOutcome, encoded, enginePc, engRead,
                   engLeft, resultSent, outPipe, outClosed, outRead, joinRes,
                   result>>

\* The writer's closure returns, or its panic ends the thread.
WriterExit ==
    /\ writerPc = "closed"
    /\ writerPc' = IF wOutcome = "panic" THEN "panicked" ELSE "done"
    /\ UNCHANGED <<inputs, mainPc, wOutcome, encoded, wbuf, inPipe, inClosed,
                   enginePc, engRead, engLeft, resultSent, outPipe, outClosed,
                   outRead, joinRes, result, failed>>

\* bindings::ir_list_read(0): the engine reads its stdin to end-of-stream and
\* decodes what it read; bytes that do not decode are fatal, and the process
\* exits without a result.
EngineRead ==
    /\ enginePc = "reading"
    /\ \/ /\ inPipe > 0
          /\ inPipe' = inPipe - 1
          /\ engRead' = engRead + 1
          /\ UNCHANGED <<enginePc, engLeft, outClosed>>
       \/ /\ inPipe = 0 /\ inClosed
          /\ IF decode_program(Take(emitted.out, engRead)).k = "ok"
             THEN enginePc' = "running" /\ engLeft' = engOutLen
                  /\ UNCHANGED outClosed
             ELSE enginePc' = "exited" /\ outClosed' = TRUE
                  /\ UNCHANGED engLeft
          /\ UNCHANGED <<inPipe, engRead>>
    /\ UNCHANGED <<inputs, mainPc, writerPc, wOutcome, encoded, wbuf, inClosed,
                   resultSent, outPipe, outRead, joinRes, result, failed>>

\* bindings::interpret(..): the program prints, a byte at a time, waiting
\* while the stdout pipe is full.
EngineWrite ==
    /\ enginePc = "running"
    /\ engLeft > 0 /\ outPipe < PipeCap
    /\ engLeft' = engLeft - 1
    /\ outPipe' = outPipe + 1
    /\ UNCHANGED <<inputs, mainPc, writerPc, wOutcome, encoded, wbuf, inPipe,
                   inClosed, enginePc, engRead, resultSent, outClosed, outRead,
                   joinRes, result, failed>>

\* The program is over: the ProgramStack is sent back and the process exits,
\* which closes its stdout.
EngineFinish ==
    /\ enginePc = "running"
    /\ engLeft = 0 /\ engFate = "finish"
    /\ resultSent' = TRUE
    /\ enginePc' = "exited"
    /\ outClosed' = TRUE
    /\ UNCHANGED <<inputs, mainPc, writerPc, wOutcome, encoded, wbuf, inPipe,
                   inClosed, engRead, engLeft, outPipe, outRead, joinRes,
                   result, failed>>

\* The engine process dies: a fatal error of the engine, or the expect of
\* interpret_in_c.  Nothing is sent back.
EngineAbort ==
    /\ enginePc \in {"reading", "running"}
    /\ engFate = "abort"
    /\ enginePc' = "exited"
    /\ outClosed' = TRUE
    /\ UNCHANGED <<inputs, mainPc, writerPc, wOutcome, encoded, wbuf, inPipe,
                   inClosed, engRead, engLeft, resultSent, outPipe, outRead,
                   joinRes, result, failed>>

MainStep == MainSpawn \/ MainSpawnWriter \/ MainRead \/ MainJoin
            \/ MainScopeEnd \/ MainUnwind
WriterStep == WriterEncode \/ WriterFlush \/ WriterDrop \/ WriterExit
EngineStep == EngineRead \/ EngineWrite \/ EngineFinish \/ EngineAbort

Next == MainStep \/ WriterStep \/ EngineStep
Spec == InitInterpret /\ [][Next]_vars

\* Each thread and the engine process keep running while they can take a step.
FairSpec ==
    Spec /\ WF_vars(MainStep) /\ WF_vars(WriterStep) /\ WF_vars(EngineStep)

-----------------------------------------------------------------------------
(* Properties of interpret() *)

\* C1: interpret() never deadlocks on the pipes.  Whenever the engine is one
\* that terminates (it finishes or aborts, it does not loop), interpret()
\* comes to its end, whatever the sizes of the program and of the output
\* against those of the pipes; and it ends by a panic only after a pipe
\* failure or with a program that cannot be encoded, else it returns.
C1_NoDeadlock ==
    /\ (engFate # "loop") ~> (mainPc \in Over)
    /\ [](mainPc = "panicked" => (failed \cap {"write", "read"} # {} \/ emitted.st = "panic"))
C1_Witness ==
    /\ Len(emitted.out) > PipeCap + BufCap
    /\ outRead > PipeCap
    /\ enginePc = "exited"
    /\ mainPc = "returned" /\ result = "Ok"

\* C2 (as claimed): every pipe or channel failure ends interpret() with a
\* returned error.
C2_FailuresAreReturned ==
    (mainPc \in Over /\ failed # {}) => (mainPc = "returned" /\ result = "Err")

\* C3 (as claimed): child.join() starts only after the writer thread has
\* completed and the reader has reached end-of-stream.
C3_JoinAfterWriterAndReader ==
    mainPc = "join" => (writerPc \in WriterOver /\ AtEof)

\* C3 (amended): child.join() starts only after the reader has reached
\* end-of-stream on the engine's output pipe, which the engine closed;
\* the writer thread is waited for before interpret() is over.
C3_JoinAfterReader ==
    /\ mainPc \in {"join", "scope_end", "returned"}
          => (outClosed /\ outPipe = 0 /\ enginePc = "exited")
    /\ mainPc \in Over => writerPc \in WriterOver
C3_Witness ==
    /\ mainPc = "join" /\ outRead = MaxOut /\ writerPc = "closed"

\* C4 (as claimed): when the program cannot be encoded, no engine is started
\* and no byte of bytecode reaches one.
C4_NoEngineOnEncodeFailure ==
    emitted.st = "panic" => (enginePc = "none" /\ inPipe = 0 /\ engRead = 0)

-----------------------------------------------------------------------------
(* The assembler: src/src/assemble.rs.  A parser takes a text and gives     *)
(* [k |-> "ok", rest |-> the text left, v |-> the value], or [k |-> "err"]  *)
(* for nom's Err::Error; a parser that panics gives [k |-> "panic"].        *)

Ok(rest, v) == [k |-> "ok", rest |-> rest, v |-> v]
ParseError == [k |-> "err"]
ParsePanic == [k |-> "panic"]

\* How much of the text a parser took.
Consumed(input, rest) == Take(input, Len(input) - Len(rest))

\* nom::bytes::complete::tag
tag(t, input) ==
    IF Len(input) >= Len(t) /\ Take(input, Len(t)) = t
    THEN Ok(Drop(input, Len(t)), t)
    ELSE ParseError

\* nom::bytes::complete::tag_no_case: the characters are compared by their
\* lower-case forms.
tag_no_case(t, input) ==
    IF /\ Len(input) >= Len(t)
       /\ \A j \in 1..Len(t) : to_lowercase(input[j]) = to_lowercase(t[j])
    THEN Ok(Drop(input, Len(t)), Take(input, Len(t)))
    ELSE ParseError

\* nom::character::complete::char
nom_char(c, input) ==
    IF input # <<>> /\ Head(input) = c THEN Ok(Tail(input), c) ELSE ParseError

\* The length of the longest prefix of the text whose characters are in S.
RECURSIVE PrefixLen(_, _)
PrefixLen(S, input) ==
    IF input # <<>> /\ Head(input) \in S THEN 1 + PrefixLen(S, Tail(input)) ELSE 0

\* The characters of the model.
Chars == Range(Ascii) \cup {"\t", "\n", "\r", "NUL", "U+E9"}

\* identifier: take_while1(alphanumeric, '$' or '_')
IdentChars == {c \in Chars : is_alphanumeric(c) \/ c = "$" \/ c = "_"}
identifier(input) ==
    LET n == PrefixLen(IdentChars, input)
    IN IF n = 0 THEN ParseError ELSE Ok(Drop(input, n), Take(input, n))

\* nom::character::complete::space1 and multispace1
space1(input) ==
    LET n == PrefixLen({" ", "\t"}, input)
    IN IF n = 0 THEN ParseError ELSE Ok(Drop(input, n), Take(input, n))
multispace1(input) ==
    LET n == PrefixLen({" ", "\t", "\r", "\n"}, input)
    IN IF n = 0 THEN ParseError ELSE Ok(Drop(input, n), Take(input, n))

\* take_until("*/"): the length of the text before the first "*/"; -1 when
\* there is none.
RECURSIVE take_until_close(_)
take_until_close(input) ==
    IF Len(input) < 2 THEN -1
    ELSE IF input[1] = "*" /\ input[2] = "/" THEN 0
    ELSE LET n == take_until_close(Tail(input)) IN IF n < 0 THEN -1 ELSE n + 1

\* multi_line_comment: delimited(tag("/*"), take_until("*/"), tag("*/"))
multi_line_comment(input) ==
    LET open == tag(<<"/", "*">>, input)
    IN IF open.k # "ok" THEN ParseError
       ELSE LET n == take_until_close(open.rest)
            IN IF n < 0 THEN ParseError
               ELSE Ok(Drop(open.rest, n + 2), Take(open.rest, n))

\* single_line_comment: preceded(tag("#"), take_till(newline or return)); the
\* character that ends the comment is left.
single_line_comment(input) ==
    LET open == tag(<<"#">>, input)
    IN IF open.k # "ok" THEN ParseError
       ELSE LET n == PrefixLen(Chars \ {"\n", "\r"}, open.rest)
            IN Ok(Drop(open.rest, n), Take(open.rest, n))

\* alt((space1, multi_line_comment))
WithinUnit(input) ==
    LET a == space1(input) IN IF a.k = "ok" THEN a ELSE multi_line_comment(input)

\* alt((multispace1, multi_line_comment, single_line_comment))
BetweenUnit(input) ==
    LET a == multispace1(input)
    IN IF a.k = "ok" THEN a
       ELSE LET b == multi_line_comment(input)
            IN IF b.k = "ok" THEN b ELSE single_line_comment(input)

\* many0_count(alt((space1, multi_line_comment))): what is left of the text.
RECURSIVE many0_within(_)
many0_within(input) ==
    LET u == WithinUnit(input)
    IN IF u.k = "ok" THEN many0_within(u.rest) ELSE input

\* within_node: recognize(many0_count(..)); it never fails.
within_node(input) ==
    LET rest == many0_within(input) IN Ok(rest, Consumed(input, rest))

RECURSIVE many0_between(_)
many0_between(input) ==
    LET u == BetweenUnit(input)
    IN IF u.k = "ok" THEN many0_between(u.rest) ELSE input

\* between_nodes: recognize(many1_count(..)); it fails when not even one unit
\* is there.
between_nodes(input) ==
    LET u == BetweenUnit(input)
    IN IF u.k # "ok" THEN ParseError
       ELSE LET rest == many0_between(u.rest) IN Ok(rest, Consumed(input, rest))

\* nom's integer parsers fold the digits with checked_mul(10) and
\* checked_add or checked_sub.  The magnitude is kept here in four limbs of
\* 16 bits, least significant first, with the carry out of the fourth.
mul10_add(l, d) ==
    LET t1 == l[1] * 10 + d
        t2 == l[2] * 10 + t1 \div 65536
        t3 == l[3] * 10 + t2 \div 65536
        t4 == l[4] * 10 + t3 \div 65536
    IN <<t1 % 65536, t2 % 65536, t3 % 65536, t4 % 65536, t4 \div 65536>>

\* The magnitude is beyond the type: u64 ends at 2^64 - 1, a positive i64 at
\* 2^63 - 1, a negative one at -2^63.
Overflows(l, type) ==
    CASE type = "u64" -> l[5] > 0
      [] type = "i64" -> l[5] > 0 \/ l[4] >= 32768
      [] type = "-i64" -> \/ l[5] > 0 \/ l[4] > 32768
                          \/ (l[4] = 32768 /\ (l[1] > 0 \/ l[2] > 0 \/ l[3] > 0))

\* The limbs of a run of digits; <<>> once a step overflows.
RECURSIVE fold_digits(_, _, _)
fold_digits(l, digits, type) ==
    IF digits = <<>> THEN l
    ELSE LET m == mul10_add(l, to_digit(Head(digits)))
         IN IF Overflows(m, type) THEN <<>> ELSE fold_digits(m, Tail(digits), type)

\* The limbs as a 64-bit integer of the model.  (A magnitude of 2^62 or more
\* has a hi part beyond the model checker's integers.)
FromLimbs(l) ==
    [hi |-> l[2] \div 32768 + 2 * l[3] + 131072 * l[4],
     lo |-> (l[2] % 32768) * 65536 + l[1]]
Negated(v) ==
    IF v.lo = 0 THEN [hi |-> -v.hi, lo |-> 0]
    ELSE [hi |-> -v.hi - 1, lo |-> (2147483647 - v.lo) + 1]

\* The loop of nom's integer parsers over the text after the sign: no digit
\* at the front is an error, and so is a step that overflows.
digits_value(input, type) ==
    LET n == PrefixLen(Range(DigitChars), input)
        l == fold_digits(<<0, 0, 0, 0, 0>>, Take(input, n), type)
    IN IF n = 0 \/ l = <<>> THEN ParseError
       ELSE Ok(Drop(input, n),
               IF type = "-i64" THEN Negated(FromLimbs(l)) ELSE FromLimbs(l))

\* An unsigned parser that lets a '-' through and reads the digits after it.
nom_u64_signed(input) ==
    IF input # <<>> /\ Head(input) = "-" THEN digits_value(Tail(input), "u64")
    ELSE digits_value(input, "u64")

\* nom::character::complete::u64: digits, no sign.
nom_u64(input) == digits_value(input, "u64")

\* nom::character::complete::i64: an optional '-' or '+', then digits.
nom_i64(input) ==
    IF input = <<>> THEN ParseError
    ELSE IF Head(input) = "-" THEN digits_value(Tail(input), "-i64")
    ELSE IF Head(input) = "+" THEN digits_value(Tail(input), "i64")
    ELSE digits_value(input, "i64")

\* A loop that keeps the backslash of an escape in the result.
RECURSIVE escaped_kept(_, _, _)
escaped_kept(remainder, index, res) ==
    IF remainder = <<>> THEN Ok(<<>>, res)
    ELSE IF Head(remainder) \notin {"\\", "\""}
    THEN escaped_kept(Tail(remainder), index + 1, Append(res, Head(remainder)))
    ELSE IF Head(remainder) = "\\"
    THEN IF Len(remainder) < 2 THEN ParseError
         ELSE IF remainder[2] \in {"\\", "\""}
         THEN escaped_kept(Drop(remainder, 2), index + 2,
                           res \o Take(remainder, 2))
         ELSE ParseError
    ELSE IF index = 0 THEN ParseError
    ELSE Ok(remainder, res)

\* A loop that lets a backslash it cannot read through, with the character
\* after it if there is one.
RECURSIVE escaped_lenient(_, _, _)
escaped_lenient(remainder, index, res) ==
    IF remainder = <<>> THEN Ok(<<>>, res)
    ELSE IF Head(remainder) \notin {"\\", "\""}
    THEN escaped_lenient(Tail(remainder), index + 1, Append(res, Head(remainder)))
    ELSE IF Head(remainder) = "\\"
    THEN IF Len(remainder) < 2 THEN Ok(<<>>, Append(res, "\\"))
         ELSE IF remainder[2] \in {"\\", "\""}
         THEN escaped_lenient(Drop(remainder, 2), index + 2,
                              Append(res, remainder[2]))
         ELSE escaped_lenient(Drop(remainder, 2), index + 2,
                              res \o Take(remainder, 2))
    ELSE IF index = 0 THEN ParseError
    ELSE Ok(remainder, res)

\* escaped_transform(none_of("\\\""), '\\', alt((value("\\", tag("\\")),
\* value("\"", tag("\""))))): its loop, at the given index of the text, with
\* the result built so far.
RECURSIVE escaped_transform(_, _, _)
escaped_transform(remainder, index, res) ==
    IF remainder = <<>> THEN Ok(<<>>, res)
    ELSE IF Head(remainder) \notin {"\\", "\""}
    THEN escaped_transform(Tail(remainder), index + 1, Append(res, Head(remainder)))
    ELSE IF Head(remainder) = "\\"
    THEN IF Len(remainder) < 2 THEN ParseError
         ELSE IF remainder[2] \in {"\\", "\""}
         THEN escaped_transform(Drop(remainder, 2), index + 2,
                                Append(res, remainder[2]))
         ELSE ParseError
    ELSE IF index = 0 THEN ParseError
    ELSE Ok(remainder, res)

\* inside_string: opt(escaped_transform(..)), an absent result being "".
inside_string(input) ==
    LET r == escaped_transform(input, 0, <<>>)
    IN IF r.k = "ok" THEN r ELSE Ok(input, <<>>)

\* string_literal: delimited(char('"'), inside_string, char('"'))
string_literal(input) ==
    LET open == nom_char("\"", input)
    IN IF open.k # "ok" THEN ParseError
       ELSE LET inner == inside_string(open.rest)
                close == nom_char("\"", inner.rest)
            IN IF close.k # "ok" THEN ParseError ELSE Ok(close.rest, inner.v)

\* nom::combinator::value: the given value in place of the parser's.
value(v, r) == IF r.k = "ok" THEN Ok(r.rest, v) ELSE r

\* alt of two parsers, from their results on the same text.
or_else(a, b) == IF a.k = "err" THEN b ELSE a

\* The instruction of a rule, from the value of its operand parser.
Instruction(variant, v) ==
    CASE variant = "Iconst" -> Iconst(v)
      [] variant = "Sconst" -> Sconst(v)
      [] variant = "Read" -> Read(v)
      [] variant = "Write" -> Write(v)
      [] variant = "ArgLocalRead" -> ArgLocalRead(v)
      [] variant = "ArgLocalWrite" -> ArgLocalWrite(v)
      [] variant = "Jump" -> Jump(v)
      [] variant = "BranchZero" -> BranchZero(v)
      [] variant = "Function" -> Function(v[1], v[2])
      [] variant = "Call" -> Call(v[1], v[2])
      [] variant = "Intrinsic" -> Intrinsic(v)
      [] variant = "Push" -> Push(v)
      [] variant = "Pop" -> Pop(v)

\* let (rest, x) = ..(input)?; Ok((rest, Instruction::Variant(x)))
map(r, variant) == IF r.k = "ok" THEN Ok(r.rest, Instruction(variant, r.v)) ELSE r

\* tuple((identifier, preceded(within_node, nom_u64))): the pair of the name
\* and of the count, from the result of identifier.
name_count_pair(name, count) ==
    IF count.k = "ok" THEN Ok(count.rest, <<name, count.v>>) ELSE count
count_after(name) ==
    IF name.k # "ok" THEN name
    ELSE name_count_pair(name.v, nom_u64(within_node(name.rest).rest))
name_and_count(input) == count_after(identifier(input))

\* alt((PRINT_INT, PRINT_STRING, EXIT)), each in any case
intrinsic_name(input) ==
    or_else(value("PrintInt", tag_no_case(<<"P", "R", "I", "N", "T", "_", "I", "N", "T">>, input)),
            or_else(value("PrintString", tag_no_case(<<"P", "R", "I", "N", "T", "_", "S", "T", "R", "I", "N", "G">>, input)),
                    value("Exit", tag_no_case(<<"E", "X", "I", "T">>, input))))

\* The operand parser of that name, after tuple((tag_no_case(..),
\* within_node)) whose result is h.
operand_after(h, operand) ==
    IF h.k # "ok" THEN h
    ELSE CASE operand = "nom_i64" -> nom_i64(h.rest)
           [] operand = "nom_u64" -> nom_u64(h.rest)
           [] operand = "identifier" -> identifier(h.rest)
           [] operand = "string_literal" -> string_literal(h.rest)
           [] operand = "name_and_count" -> name_and_count(h.rest)
           [] operand = "intrinsic_name" -> intrinsic_name(h.rest)

\* within_node after a parser whose result is t.
then_within_node(t) == IF t.k # "ok" THEN t ELSE within_node(t.rest)

\* A keyword rule that wants a blank or a block comment, one at least,
\* between the keyword and the operand.
spaced_within_node(t) ==
    IF t.k # "ok" THEN t
    ELSE IF within_node(t.rest).rest = t.rest THEN ParseError
    ELSE within_node(t.rest)
keyword_operand_spaced(keyword, operand, input) ==
    operand_after(spaced_within_node(tag_no_case(keyword, input)), operand)

\* preceded(tuple((tag_no_case(keyword), within_node)), operand)
keyword_operand(keyword, operand, input) ==
    operand_after(then_within_node(tag_no_case(keyword, input)), operand)

\* A keyword rule that also takes the blanks and block comments after the
\* keyword.
noarg_node_trailing(tag_text, instruction, input) ==
    value(instruction, then_within_node(tag_no_case(tag_text, input)))

\* noarg_node!: the keyword, in any case, and nothing else.
noarg_node(tag_text, instruction, input) ==
    value(instruction, tag_no_case(tag_text, input))

iconst(input) ==
    map(keyword_operand(<<"I", "C", "O", "N", "S", "T">>, "nom_i64", input), "Iconst")
sconst(input) ==
    map(keyword_operand(<<"S", "C", "O", "N", "S", "T">>, "string_literal", input), "Sconst")

nop(input) == noarg_node(<<"N", "O", "P">>, Nop, input)
add(input) == noarg_node(<<"A", "D", "D">>, NoArg("Add"), input)
sub(input) == noarg_node(<<"S", "U", "B">>, NoArg("Sub"), input)
mul(input) == noarg_node(<<"M", "U", "L">>, NoArg("Mul"), input)
div(input) == noarg_node(<<"D", "I", "V">>, NoArg("Div"), input)
mod_(input) == noarg_node(<<"M", "O", "D">>, NoArg("Mod"), input)
bor(input) == noarg_node(<<"B", "O", "R">>, NoArg("Bor"), input)
band(input) == noarg_node(<<"B", "A", "N", "D">>, NoArg("Band"), input)
xor(input) == noarg_node(<<"X", "O", "R">>, NoArg("Xor"), input)
or(input) == noarg_node(<<"O", "R">>, NoArg("Or"), input)
and(input) == noarg_node(<<"A", "N", "D">>, NoArg("And"), input)
eq(input) == noarg_node(<<"E", "Q">>, NoArg("Eq"), input)
lt(input) == noarg_node(<<"L", "T">>, NoArg("Lt"), input)
gt(input) == noarg_node(<<"G", "T">>, NoArg("Gt"), input)
not(input) == noarg_node(<<"N", "O", "T">>, NoArg("Not"), input)

\* reserve, from its end to its start.  After the size: the first byte of
\* what follows is read without a look at its length, so on an empty
\* remainder the index is out of bounds and panics; a quote starts the
\* string literal of ReserveString, anything else has to be (null).
reserve_string(name, size, lit) ==
    IF lit.k = "ok" THEN Ok(lit.rest, ReserveString(name, size, lit.v)) ELSE lit
\* (null) taken for an empty string of the declared size.
reserve_value_sized(name, size, start_of_string_or_null) ==
    IF start_of_string_or_null = <<>> THEN ParsePanic
    ELSE IF Head(start_of_string_or_null) = "\""
    THEN reserve_string(name, size, string_literal(start_of_string_or_null))
    ELSE value(ReserveString(name, size, <<>>), tag_no_case(<<"(", "n", "u", "l", "l", ")">>, start_of_string_or_null))
reserve_value(name, size, start_of_string_or_null) ==
    IF start_of_string_or_null = <<>> THEN ParsePanic
    ELSE IF Head(start_of_string_or_null) = "\""
    THEN reserve_string(name, size, string_literal(start_of_string_or_null))
    ELSE value(ReserveInt(name), tag_no_case(<<"(", "n", "u", "l", "l", ")">>, start_of_string_or_null))
\* delimited(within_node, nom_u64, within_node), from the result of nom_u64
reserve_size(name, size) ==
    IF size.k # "ok" THEN size
    ELSE reserve_value(name, size.v, within_node(size.rest).rest)
\* preceded(within_node, identifier), from the result of identifier
reserve_name(name) ==
    IF name.k # "ok" THEN name
    ELSE reserve_size(name.v, nom_u64(within_node(name.rest).rest))
reserve_keyword(t) ==
    IF t.k # "ok" THEN t ELSE reserve_name(identifier(within_node(t.rest).rest))
reserve(input) == reserve_keyword(tag_no_case(<<"R", "E", "S", "E", "R", "V", "E">>, input))

read(input) ==
    map(keyword_operand(<<"R", "E", "A", "D">>, "identifier", input), "Read")
write(input) ==
    map(keyword_operand(<<"W", "R", "I", "T", "E">>, "identifier", input), "Write")
arg_local_read(input) ==
    map(keyword_operand(<<"A", "R", "G", "L", "O", "C", "A", "L", "_", "R", "E", "A", "D">>, "nom_u64", input), "ArgLocalRead")
arg_local_write(input) ==
    map(keyword_operand(<<"A", "R", "G", "L", "O", "C", "A", "L", "_", "W", "R", "I", "T", "E">>, "nom_u64", input), "ArgLocalWrite")

\* label: terminated(identifier, tag_no_case(":"))
label_colon(name) ==
    IF name.k # "ok" THEN name
    ELSE value(Label(name.v), tag_no_case(<<":">>, name.rest))
label(input) == label_colon(identifier(input))

jump(input) ==
    map(keyword_operand(<<"J", "U", "M", "P">>, "identifier", input), "Jump")
\* branch_zero building what jump builds.
branch_zero_as_jump(input) ==
    map(keyword_operand(<<"B", "R", "A", "N", "C", "H", "Z", "E", "R", "O">>, "identifier", input), "Jump")
branch_zero(input) ==
    map(keyword_operand(<<"B", "R", "A", "N", "C", "H", "Z", "E", "R", "O">>, "identifier", input), "BranchZero")
function(input) ==
    map(keyword_operand(<<"F", "U", "N", "C", "T", "I", "O", "N">>, "name_and_count", input), "Function")
\* call building what function builds.
call_as_function(input) ==
    map(keyword_operand(<<"C", "A", "L", "L">>, "name_and_count", input), "Function")
call(input) ==
    map(keyword_operand(<<"C", "A", "L", "L">>, "name_and_count", input), "Call")

ret(input) == noarg_node(<<"R", "E", "T">>, Ret, input)

intrinsic(input) ==
    map(keyword_operand(<<"I", "N", "T", "R", "I", "N", "S", "I", "C">>, "intrinsic_name", input), "Intrinsic")
push(input) ==
    map(keyword_operand(<<"P", "U", "S", "H">>, "nom_i64", input), "Push")
pop(input) ==
    map(keyword_operand(<<"P", "O", "P">>, "nom_i64", input), "Pop")

\* The rules of node, in the order alt tries them.
NodeRules == 31
NodeRule(n, input) ==
    CASE n = 1 -> iconst(input) [] n = 2 -> sconst(input)
      [] n = 3 -> nop(input) [] n = 4 -> add(input) [] n = 5 -> sub(input)
      [] n = 6 -> mul(input) [] n = 7 -> div(input) [] n = 8 -> mod_(input)
      [] n = 9 -> bor(input) [] n = 10 -> band(input) [] n = 11 -> xor(input)
      [] n = 12 -> or(input) [] n = 13 -> and(input) [] n = 14 -> eq(input)
      [] n = 15 -> lt(input) [] n = 16 -> gt(input) [] n = 17 -> not(input)
      [] n = 18 -> reserve(input) [] n = 19 -> read(input)
      [] n = 20 -> write(input) [] n = 21 -> arg_local_read(input)
      [] n = 22 -> arg_local_write(input) [] n = 23 -> label(input)
      [] n = 24 -> jump(input) [] n = 25 -> branch_zero(input)
      [] n = 26 -> function(input) [] n = 27 -> call(input)
      [] n = 28 -> ret(input) [] n = 29 -> intrinsic(input)
      [] n = 30 -> push(input) [] n = 31 -> pop(input)

\* alt: the first rule, from the n-th on, that does not end in an error.
RECURSIVE alt(_, _)
alt_next(r, n, input) == IF r.k = "err" THEN alt(n + 1, input) ELSE r
alt(n, input) ==
    IF n > NodeRules THEN ParseError ELSE alt_next(NodeRule(n, input), n, input)

node(input) == alt(1, input)

\* opt(between_nodes): what is left of the text.
opt_rest(r, input) == IF r.k = "ok" THEN r.rest ELSE input
opt_between_nodes(input) == opt_rest(between_nodes(input), input)

\* separated_list0(between_nodes, node).  After an instruction: a separator
\* and an instruction more, or the list so far with the separator left in
\* the text; a panic of node ends it all.
RECURSIVE separated_more(_, _)
separated_node(f, i, res) ==
    CASE f.k = "ok" -> separated_more(f.rest, Append(res, f.v))
      [] f.k = "err" -> Ok(i, res)
      [] f.k = "panic" -> ParsePanic
\* A list whose separator may be absent: the next instruction is looked for
\* right where the last one ended.
separated_sep_optional(sep, i, res) ==
    separated_node(node(opt_rest(sep, i)), i, res)
separated_sep(sep, i, res) ==
    IF sep.k # "ok" THEN Ok(i, res) ELSE separated_node(node(sep.rest), i, res)
separated_more(i, res) == separated_sep(between_nodes(i), i, res)
separated_list0(input) == separated_node(node(input), input, <<>>)

\* all_consuming(delimited(.., .., opt(between_nodes))), from the result of
\* the list: a Vec<Instruction>, or the error.
all_consuming(list) ==
    IF list.k # "ok" THEN list
    ELSE IF opt_between_nodes(list.rest) # <<>> THEN ParseError
    ELSE [k |-> "ok", v |-> list.v]

\* program: all_consuming(delimited(opt(between_nodes),
\* separated_list0(between_nodes, node), opt(between_nodes)))
program(input) == all_consuming(separated_list0(opt_between_nodes(input)))

-----------------------------------------------------------------------------
(* The assembler on its own: node and program are applied to a text made   *)
(* of a few pieces, which are instructions, whole or cut short, separators *)
(* and a character no rule takes.                                           *)

MaxPieces == 3

InstructionPieces ==
    { <<"N", "O", "P">>,
      <<"a", "d", "d">>,
      <<"I", "C", "O", "N", "S", "T", " ", "5">>,
      <<"R", "E", "S", "E", "R", "V", "E", " ", "x", " ", "4">>,
      <<"R", "E", "S", "E", "R", "V", "E", " ", "x", " ", "4", " ", "(", "n", "u", "l", "l", ")">>,
      <<"R", "E", "S", "E", "R", "V", "E", " ", "x", " ", "4", " ", "\"", "a", "\"">>,
      <<"P", "U", "S", "H">>,
      <<"P", "U", "S", "H", " ", "-", "1">>,
      <<"P", "O", "P">>,
      <<"L", "0", ":">>,
      <<"C", "A", "L", "L", " ", "f">>,
      <<"C", "A", "L", "L", " ", "f", " ", "1">>,
      <<"F", "U", "N", "C", "T", "I", "O", "N", " ", "f">>,
      <<"I", "N", "T", "R", "I", "N", "S", "I", "C">>,
      <<"I", "N", "T", "R", "I", "N", "S", "I", "C", " ", "e", "x", "i", "t">> }
SeparatorPieces ==
    { <<" ">>,
      <<"\n">>,
      <<"/", "*", "c", "*", "/">>,
      <<"#", "c">>,
      <<"!">> }
AsmPieces == InstructionPieces \cup SeparatorPieces

RECURSIVE Concat(_)
Concat(ps) == IF ps = <<>> THEN <<>> ELSE Head(ps) \o Concat(Tail(ps))

AsmInputs == {Concat(ps) : ps \in SeqsUpTo(AsmPieces, MaxPieces)}

InitAsm ==
    /\ aInput \in AsmInputs
    /\ aPc = "start" /\ aNode = [k |-> "none"] /\ aProgram = [k |-> "none"]
    /\ aString = [k |-> "none"]
    /\ IdleInterpret /\ IdleCodec /\ IdleRun

\* assemble::node(aInput)
ParseNode ==
    /\ aPc = "start"
    /\ aNode' = node(aInput)
    /\ aPc' = "node"
    /\ UNCHANGED <<aInput, aProgram, aString, ivars, cvars, rvars>>

\* assemble::program(aInput)
ParseProgram ==
    /\ aPc = "node"
    /\ aProgram' = program(aInput)
    /\ aPc' = "done"
    /\ UNCHANGED <<aInput, aNode, aString, ivars, cvars, rvars>>

NextAsm == ParseNode \/ ParseProgram
SpecAsm == InitAsm /\ [][NextAsm]_vars

-----------------------------------------------------------------------------
(* Properties of the assembler *)

\* What is left of the text once the instructions of prog, with a separator
\* between each two, are taken from its front; the text itself with a
\* character no rule takes before it, when it does not start so.
RECURSIVE AfterInstructions(_, _)
AfterSeparator(sep, text, prog) ==
    IF sep.k # "ok" THEN <<"!">> \o text ELSE AfterInstructions(sep.rest, prog)
AfterNode(f, text, prog) ==
    IF f.k # "ok" \/ f.v # Head(prog) THEN <<"!">> \o text
    ELSE IF Tail(prog) = <<>> THEN f.rest
    ELSE AfterSeparator(between_nodes(f.rest), text, Tail(prog))
AfterInstructions(text, prog) ==
    IF prog = <<>> THEN text ELSE AfterNode(node(text), text, prog)

\* The text is, from end to end: an optional separator, the instructions of
\* prog, an optional separator.
IsWholly(text, prog) ==
    opt_between_nodes(AfterInstructions(opt_between_nodes(text), prog)) = <<>>

\* C9 (as claimed): program(text) returns a Program only when the whole text
\* is an optional separator, the instructions, an optional separator; in
\* every other case it returns a parse error, which carries no Program.
C9_WholeInputOrError ==
    aPc = "done" =>
        IF aProgram.k = "ok" THEN IsWholly(aInput, aProgram.v)
        ELSE aProgram = ParseError

\* C10 (as claimed): node and program end with a parsed result or with a
\* parse error for every text, an instruction short of an operand included;
\* neither ever panics.
C10_NeverPanics ==
    /\ aPc \in {"node", "done"} => aNode.k \in {"ok", "err"}
    /\ aPc = "done" => aProgram.k \in {"ok", "err"}

-----------------------------------------------------------------------------
(* The assembler on chosen texts: node, program and string_literal are     *)
(* applied to texts of a few families, one for each rule looked at.        *)

\* The text in lower case, and with only its first letter in upper case.
Lower(s) == [j \in 1..Len(s) |-> to_lowercase(s[j])]
Capitalized(s) == <<Head(s)>> \o Lower(Tail(s))
CaseVariants(s) == {s, Lower(s), Capitalized(s)}

\* Identifiers: some are or begin with an opcode keyword, some begin with a
\* digit, some hold '$' or '_'.
LabelIds ==
    { <<"a", "d", "d">>, <<"o", "r">>, <<"n", "o", "t">>, <<"o", "r", "a", "n", "g", "e">>, <<"r", "e", "a", "d", "y">>, <<"A", "D", "D">>, <<"n", "o", "p">>,
      <<"r", "e", "t">>, <<"r", "e", "t", "u", "r", "n">>, <<"p", "o", "p">>, <<"p", "u", "s", "h">>, <<"I", "c", "o", "n", "s", "t">>, <<"j", "u", "m", "p">>,
      <<"c", "a", "l", "l", "e", "e">>, <<"L", "0">>, <<"x">>, <<"$", "a">>, <<"_", "1">>, <<"l", "o", "o", "p">>, <<"9">>, <<"1", "a">>,
      <<"e", "q">>, <<"e", "q", "u", "a", "l">>, <<"l", "t">>, <<"m", "o", "d", "e">>, <<"w", "r", "i", "t", "e", "r">> }
LabelInputs == {id \o <<":">> : id \in LabelIds}

\* Texts that start with the letters of RET.
RetInputs ==
    { <<"r", "e", "t">>, <<"R", "E", "T">>, <<"r", "e", "t", " ", "x">>, <<"r", "e", "t", "\n">>, <<"r", "e", "t", "u", "r", "n">>, <<"R", "E", "T", "U", "R", "N">>,
      <<"r", "e", "t", "x">>, <<"R", "e", "t", "1">>, <<"r", "e", "t", "_">>, <<"r", "e", "t", "$", "a">>, <<"r", "e", "t", "u", "r", "n", "s", " ", "x">>, <<"r", "e", "t", "u", "r", "n", "\n">>,
      <<"r", "e", "t", "s", ":">>, <<"r", "e", "t", "i", "r", "e", " ", "N", "O", "P">> }

\* Two instructions, with nothing or with one separator between them.
WholeInstructions ==
    { <<"A", "D", "D">>, <<"S", "U", "B">>, <<"N", "O", "P">>, <<"R", "E", "T">>, <<"L", "0", ":">>, <<"I", "C", "O", "N", "S", "T", " ", "5">>, <<"P", "U", "S", "H", " ", "1">>,
      <<"S", "C", "O", "N", "S", "T", " ", "\"", "a", "\"">>, <<"J", "U", "M", "P", " ", "L">>, <<"I", "N", "T", "R", "I", "N", "S", "I", "C", " ", "e", "x", "i", "t">>, <<"C", "A", "L", "L", " ", "f", " ", "1">>,
      <<"R", "E", "A", "D", " ", "N", "O", "P">> }
Separators == { <<" ">>, <<"\n">>, <<"/", "*", "c", "*", "/">>, <<"#", "c", "\n">>, <<" ", "/", "*", "c", "*", "/", "\n", "#", "c", "\n", "\t">> }
AdjacentInputs == {x \o y : x \in WholeInstructions, y \in WholeInstructions}
SeparatedInputs ==
    {x \o s \o y : x \in WholeInstructions, s \in Separators, y \in WholeInstructions}

\* An instruction with a gap between its keyword and an operand, or between
\* two of its operands: before and after the gap.
OperandSplits ==
    { <<<<"I", "C", "O", "N", "S", "T">>, <<"5">>>>, <<<<"S", "C", "O", "N", "S", "T">>, <<"\"", "a", "\"">>>>,
      <<<<"R", "E", "S", "E", "R", "V", "E">>, <<"x", " ", "4", " ", "(", "n", "u", "l", "l", ")">>>>, <<<<"R", "E", "S", "E", "R", "V", "E", " ", "x">>, <<"4", " ", "(", "n", "u", "l", "l", ")">>>>,
      <<<<"R", "E", "S", "E", "R", "V", "E", " ", "x", " ", "4">>, <<"(", "n", "u", "l", "l", ")">>>>, <<<<"R", "E", "S", "E", "R", "V", "E", " ", "x", " ", "4">>, <<"\"", "a", "\"">>>>,
      <<<<"R", "E", "A", "D">>, <<"x">>>>, <<<<"W", "R", "I", "T", "E">>, <<"x">>>>,
      <<<<"A", "R", "G", "L", "O", "C", "A", "L", "_", "R", "E", "A", "D">>, <<"1">>>>, <<<<"A", "R", "G", "L", "O", "C", "A", "L", "_", "W", "R", "I", "T", "E">>, <<"1">>>>,
      <<<<"J", "U", "M", "P">>, <<"L">>>>, <<<<"B", "R", "A", "N", "C", "H", "Z", "E", "R", "O">>, <<"L">>>>,
      <<<<"F", "U", "N", "C", "T", "I", "O", "N">>, <<"f", " ", "1">>>>, <<<<"F", "U", "N", "C", "T", "I", "O", "N", " ", "f">>, <<"1">>>>,
      <<<<"C", "A", "L", "L">>, <<"f", " ", "1">>>>, <<<<"C", "A", "L", "L", " ", "f">>, <<"1">>>>,
      <<<<"I", "N", "T", "R", "I", "N", "S", "I", "C">>, <<"e", "x", "i", "t">>>>, <<<<"P", "U", "S", "H">>, <<"1">>>>, <<<<"P", "O", "P">>, <<"1">>>> }
NewlineGaps ==
    { <<"\n">>, <<" ", "\n">>, <<"\n", " ">>, <<"/", "*", "\n", "*", "/">>, <<" ", "/", "*", "\n", "*", "/", " ">>, <<"/", "*", "a", "\n", "b", "*", "/">> }
OneLineGaps == { <<" ">>, <<"\t">>, <<"/", "*", "c", "*", "/">>, <<" ", "/", "*", "c", "*", "/", " ">> }
LineSpanInputs == {p[1] \o g \o p[2] : p \in OperandSplits, g \in NewlineGaps}
OneLineInputs == {p[1] \o g \o p[2] : p \in OperandSplits, g \in OneLineGaps}

\* The keywords: those of the rules made by noarg_node!, each with its
\* instruction, and those of the rules that take operands.
NoArgKeywords ==
    { <<<<"N", "O", "P">>, Nop>>, <<<<"A", "D", "D">>, NoArg("Add")>>, <<<<"S", "U", "B">>, NoArg("Sub")>>,
      <<<<"M", "U", "L">>, NoArg("Mul")>>, <<<<"D", "I", "V">>, NoArg("Div")>>,
      <<<<"M", "O", "D">>, NoArg("Mod")>>, <<<<"B", "O", "R">>, NoArg("Bor")>>,
      <<<<"B", "A", "N", "D">>, NoArg("Band")>>, <<<<"X", "O", "R">>, NoArg("Xor")>>,
      <<<<"O", "R">>, NoArg("Or")>>, <<<<"A", "N", "D">>, NoArg("And")>>,
      <<<<"E", "Q">>, NoArg("Eq")>>, <<<<"L", "T">>, NoArg("Lt")>>,
      <<<<"G", "T">>, NoArg("Gt")>>, <<<<"N", "O", "T">>, NoArg("Not")>>, <<<<"R", "E", "T">>, Ret>> }
OperandKeywords ==
    { <<"I", "C", "O", "N", "S", "T">>, <<"S", "C", "O", "N", "S", "T">>, <<"R", "E", "S", "E", "R", "V", "E">>, <<"R", "E", "A", "D">>, <<"W", "R", "I", "T", "E">>,
      <<"A", "R", "G", "L", "O", "C", "A", "L", "_", "R", "E", "A", "D">>, <<"A", "R", "G", "L", "O", "C", "A", "L", "_", "W", "R", "I", "T", "E">>, <<"J", "U", "M", "P">>, <<"B", "R", "A", "N", "C", "H", "Z", "E", "R", "O">>,
      <<"F", "U", "N", "C", "T", "I", "O", "N">>, <<"C", "A", "L", "L">>, <<"I", "N", "T", "R", "I", "N", "S", "I", "C">>, <<"P", "U", "S", "H">>, <<"P", "O", "P">> }
OperandInstructions ==
    { <<"I", "C", "O", "N", "S", "T", " ", "5">>, <<"S", "C", "O", "N", "S", "T", " ", "\"", "a", "\"">>, <<"R", "E", "S", "E", "R", "V", "E", " ", "x", " ", "4", " ", "(", "n", "u", "l", "l", ")">>,
      <<"R", "E", "S", "E", "R", "V", "E", " ", "x", " ", "4", " ", "\"", "a", "\"">>, <<"R", "E", "A", "D", " ", "x">>, <<"W", "R", "I", "T", "E", " ", "x">>, <<"A", "R", "G", "L", "O", "C", "A", "L", "_", "R", "E", "A", "D", " ", "1">>,
      <<"A", "R", "G", "L", "O", "C", "A", "L", "_", "W", "R", "I", "T", "E", " ", "1">>, <<"J", "U", "M", "P", " ", "L">>, <<"B", "R", "A", "N", "C", "H", "Z", "E", "R", "O", " ", "L">>, <<"F", "U", "N", "C", "T", "I", "O", "N", " ", "f", " ", "1">>,
      <<"C", "A", "L", "L", " ", "f", " ", "1">>, <<"I", "N", "T", "R", "I", "N", "S", "I", "C", " ", "e", "x", "i", "t">>, <<"P", "U", "S", "H", " ", "-", "1">>, <<"P", "O", "P", " ", "1">>, <<"L", "0", ":">> }
\* What may follow: it starts with whitespace.
Suffixes == { <<" ">>, <<"\n">>, <<"\t">>, <<" ", "x">>, <<" ", " ", "\n", "5">>, <<"\n", "\n">> }
NoArgFrameInputs ==
    {w \o s : w \in UNION {CaseVariants(kw[1]) : kw \in NoArgKeywords}, s \in Suffixes}
OperandKeywordFrameInputs ==
    {w \o s : w \in UNION {CaseVariants(kw) : kw \in OperandKeywords}, s \in Suffixes}
OperandFrameInputs ==
    {w \o s : w \in UNION {{i, Lower(i)} : i \in OperandInstructions}, s \in Suffixes}
LeadingSpaceInputs ==
    {<<" ">> \o w : w \in {kw[1] : kw \in NoArgKeywords} \cup OperandInstructions}
FrameInputs ==
    NoArgFrameInputs \cup OperandKeywordFrameInputs \cup OperandFrameInputs
        \cup LeadingSpaceInputs

\* String literals.  A body is made of pieces: the text of the piece and
\* what it stands for.
MaxBody == 3
LiteralPieces ==
    { [src |-> <<"a">>, val |-> <<"a">>], [src |-> <<"b">>, val |-> <<"b">>],
      [src |-> <<" ">>, val |-> <<" ">>],
      [src |-> <<"\n">>, val |-> <<"\n">>], [src |-> <<"\t">>, val |-> <<"\t">>],
      [src |-> <<"\\", "\"">>, val |-> <<"\"">>],
      [src |-> <<"\\", "\\">>, val |-> <<"\\">>] }
LiteralBodies == SeqsUpTo(LiteralPieces, MaxBody)
RECURSIVE BodySrc(_)
BodySrc(ps) == IF ps = <<>> THEN <<>> ELSE Head(ps).src \o BodySrc(Tail(ps))
RECURSIVE BodyVal(_)
BodyVal(ps) == IF ps = <<>> THEN <<>> ELSE Head(ps).val \o BodyVal(Tail(ps))
Quoted(body) == <<"\"">> \o body \o <<"\"">>
\* What may stand after the closing quote.
LiteralTails == { <<>>, <<" ", "x">>, <<"\"", "b", "\"">> }
LiteralInputs ==
    {Quoted(BodySrc(ps)) \o t : ps \in LiteralBodies, t \in LiteralTails}

\* Bodies with a backslash before a character that is neither a quote nor a
\* backslash, closed by a quote, and bodies cut after a backslash.
BadEscapes ==
    { <<"\\", "n">>, <<"\\", "t">>, <<"\\", "a">>, <<"\\", "0">>,
      <<"\\", "'">>, <<"\\", "\n">>, <<"\\", " ">> }
ShortBodies == {BodySrc(ps) : ps \in SeqsUpTo(LiteralPieces, 1)}
BadEscapeInputs ==
    {Quoted(b \o e \o c) : b \in ShortBodies, e \in BadEscapes, c \in ShortBodies}
TrailingBackslashInputs ==
    {<<"\"">> \o b \o <<"\\">> : b \in ShortBodies}
        \cup {<<"\"">> \o b \o <<"\\", "\"">> : b \in ShortBodies}

\* Instructions with an operand that has to be unsigned: what stands before
\* the operand, the operand, what follows it.
UnsignedHeads ==
    { <<"A", "R", "G", "L", "O", "C", "A", "L", "_", "R", "E", "A", "D", " ">>, <<"A", "R", "G", "L", "O", "C", "A", "L", "_", "W", "R", "I", "T", "E", " ">>, <<"F", "U", "N", "C", "T", "I", "O", "N", " ", "f", " ">>, <<"C", "A", "L", "L", " ", "f", " ">>,
      <<"R", "E", "S", "E", "R", "V", "E", " ", "x", " ">>, <<"a", "r", "g", "l", "o", "c", "a", "l", "_", "r", "e", "a", "d", "/", "*", "c", "*", "/">>, <<"c", "a", "l", "l", " ", "f", "\t">> }
UnsignedTails == { <<>>, <<" ", "(", "n", "u", "l", "l", ")">>, <<" ", "\"", "a", "\"">> }
NegativeLiterals == { <<"-", "1">>, <<"-", "0">>, <<"-", "5">>, <<"-", "4", "2">> }
NamedOperands == { <<"x">>, <<"a", "1">>, <<"_">>, <<"$", "0">>, <<"f">>, <<"n", "u", "l", "l">> }
DigitLedIdentifiers == { <<"1", "a">>, <<"0", "x">>, <<"4", "_">> }
UnsignedLiterals == { <<"0">>, <<"1">>, <<"4">> }
UnsignedOperands ==
    NegativeLiterals \cup NamedOperands \cup DigitLedIdentifiers
        \cup UnsignedLiterals
UnsignedInputs ==
    {h \o o \o t : h \in UnsignedHeads, o \in UnsignedOperands, t \in UnsignedTails}

\* RESERVE name size, and what follows the size.
ReserveHeads ==
    { [text |-> <<"R", "E", "S", "E", "R", "V", "E", " ", "x", " ", "4", " ">>, name |-> <<"x">>, size |-> I64(4)],
      [text |-> <<"r", "e", "s", "e", "r", "v", "e", " ", "b", "u", "f", " ", "1", "2", "/", "*", "c", "*", "/">>, name |-> <<"b", "u", "f">>, size |-> I64(12)],
      [text |-> <<"R", "e", "s", "e", "r", "v", "e", " ", "$", "s", " ", "0", "\t">>, name |-> <<"$", "s">>, size |-> I64(0)] }
ReserveLiterals ==
    { [src |-> <<"\"", "a", "\"">>, val |-> <<"a">>], [src |-> <<"\"", "\"">>, val |-> <<>>],
      [src |-> <<"\"", "a", "\\", "\"", "b", "\"">>, val |-> <<"a", "\"", "b">>] }
NullTexts == { <<"(", "n", "u", "l", "l", ")">>, <<"(", "N", "U", "L", "L", ")">>, <<"(", "N", "u", "l", "l", ")">> }
OtherContinuations ==
    { <<>>, <<"n", "u", "l", "l">>, <<"5">>, <<"x">>, <<"(", "n", "u", "l">>, <<"(", " ", "n", "u", "l", "l", ")">>, <<"'", "a", "'">>,
      <<"\"", "a">>, <<"\"", "\\", "n", "\"">>, <<"\n", "(", "n", "u", "l", "l", ")">> }
ReserveInputs ==
    {h.text \o c : h \in ReserveHeads,
              c \in {l.src : l \in ReserveLiterals} \cup NullTexts
                        \cup OtherContinuations}

\* RESERVE x size (null), with sizes up to 2^62 - 1, and with what
\* is no unsigned integer for a size: a sign, a value past u64, a name, a
\* fraction, nothing, digits with a letter, a size on another line.
NullSizeInputs ==
    { <<"R", "E", "S", "E", "R", "V", "E", " ", "x", " ", "4", " ", "(", "n", "u", "l", "l", ")">>,
      <<"r", "e", "s", "e", "r", "v", "e", " ", "x", " ", "4", "(", "N", "U", "L", "L", ")">>,
      <<"R", "e", "s", "e", "r", "v", "e", " ", "x", " ", "/", "*", "n", "*", "/", " ", "4", "\t", "(", "N", "u", "l", "l", ")">>,
      <<"R", "E", "S", "E", "R", "V", "E", " ", "x", " ", "1", "0", " ", "(", "n", "u", "l", "l", ")">>,
      <<"r", "e", "s", "e", "r", "v", "e", " ", "x", " ", "1", "0", "(", "N", "U", "L", "L", ")">>,
      <<"R", "e", "s", "e", "r", "v", "e", " ", "x", " ", "/", "*", "n", "*", "/", " ", "1", "0", "\t", "(", "N", "u", "l", "l", ")">>,
      <<"R", "E", "S", "E", "R", "V", "E", " ", "x", " ", "0", " ", "(", "n", "u", "l", "l", ")">>,
      <<"r", "e", "s", "e", "r", "v", "e", " ", "x", " ", "0", "(", "N", "U", "L", "L", ")">>,
      <<"R", "e", "s", "e", "r", "v", "e", " ", "x", " ", "/", "*", "n", "*", "/", " ", "0", "\t", "(", "N", "u", "l", "l", ")">>,
      <<"R", "E", "S", "E", "R", "V", "E", " ", "x", " ", "0", "0", "7", " ", "(", "n", "u", "l", "l", ")">>,
      <<"r", "e", "s", "e", "r", "v", "e", " ", "x", " ", "0", "0", "7", "(", "N", "U", "L", "L", ")">>,
      <<"R", "e", "s", "e", "r", "v", "e", " ", "x", " ", "/", "*", "n", "*", "/", " ", "0", "0", "7", "\t", "(", "N", "u", "l", "l", ")">>,
      <<"R", "E", "S", "E", "R", "V", "E", " ", "x", " ", "1", " ", "(", "n", "u", "l", "l", ")">>,
      <<"r", "e", "s", "e", "r", "v", "e", " ", "x", " ", "1", "(", "N", "U", "L", "L", ")">>,
      <<"R", "e", "s", "e", "r", "v", "e", " ", "x", " ", "/", "*", "n", "*", "/", " ", "1", "\t", "(", "N", "u", "l", "l", ")">>,
      <<"R", "E", "S", "E", "R", "V", "E", " ", "x", " ", "2", "1", "4", "7", "4", "8", "3", "6", "4", "7", " ", "(", "n", "u", "l", "l", ")">>,
      <<"r", "e", "s", "e", "r", "v", "e", " ", "x", " ", "2", "1", "4", "7", "4", "8", "3", "6", "4", "7", "(", "N", "U", "L", "L", ")">>,
      <<"R", "e", "s", "e", "r", "v", "e", " ", "x", " ", "/", "*", "n", "*", "/", " ", "2", "1", "4", "7", "4", "8", "3", "6", "4", "7", "\t", "(", "N", "u", "l", "l", ")">>,
      <<"R", "E", "S", "E", "R", "V", "E", " ", "x", " ", "2", "1", "4", "7", "4", "8", "3", "6", "4", "8", " ", "(", "n", "u", "l", "l", ")">>,
      <<"r", "e", "s", "e", "r", "v", "e", " ", "x", " ", "2", "1", "4", "7", "4", "8", "3", "6", "4", "8", "(", "N", "U", "L", "L", ")">>,
      <<"R", "e", "s", "e", "r", "v", "e", " ", "x", " ", "/", "*", "n", "*", "/", " ", "2", "1", "4", "7", "4", "8", "3", "6", "4", "8", "\t", "(", "N", "u", "l", "l", ")">>,
      <<"R", "E", "S", "E", "R", "V", "E", " ", "x", " ", "4", "2", "9", "4", "9", "6", "7", "2", "9", "6", " ", "(", "n", "u", "l", "l", ")">>,
      <<"r", "e", "s", "e", "r", "v", "e", " ", "x", " ", "4", "2", "9", "4", "9", "6", "7", "2", "9", "6", "(", "N", "U", "L", "L", ")">>,
      <<"R", "e", "s", "e", "r", "v", "e", " ", "x", " ", "/", "*", "n", "*", "/", " ", "4", "2", "9", "4", "9", "6", "7", "2", "9", "6", "\t", "(", "N", "u", "l", "l", ")">>,
      <<"R", "E", "S", "E", "R", "V", "E", " ", "x", " ", "4", "6", "1", "1", "6", "8", "6", "0", "1", "8", "4", "2", "7", "3", "8", "7", "9", "0", "3", " ", "(", "n", "u", "l", "l", ")">>,
      <<"r", "e", "s", "e", "r", "v", "e", " ", "x", " ", "4", "6", "1", "1", "6", "8", "6", "0", "1", "8", "4", "2", "7", "3", "8", "7", "9", "0", "3", "(", "N", "U", "L", "L", ")">>,
      <<"R", "e", "s", "e", "r", "v", "e", " ", "x", " ", "/", "*", "n", "*", "/", " ", "4", "6", "1", "1", "6", "8", "6", "0", "1", "8", "4", "2", "7", "3", "8", "7", "9", "0", "3", "\t", "(", "N", "u", "l", "l", ")">> }
BadSizeInputs ==
    { <<"R", "E", "S", "E", "R", "V", "E", " ", "x", " ", "-", "4", " ", "(", "n", "u", "l", "l", ")">>,
      <<"R", "E", "S", "E", "R", "V", "E", " ", "x", " ", "1", "8", "4", "4", "6", "7", "4", "4", "0", "7", "3", "7", "0", "9", "5", "5", "1", "6", "1", "6", " ", "(", "n", "u", "l", "l", ")">>,
      <<"R", "E", "S", "E", "R", "V", "E", " ", "x", " ", "s", " ", "(", "n", "u", "l", "l", ")">>,
      <<"R", "E", "S", "E", "R", "V", "E", " ", "x", " ", "4", ".", "5", " ", "(", "n", "u", "l", "l", ")">>,
      <<"R", "E", "S", "E", "R", "V", "E", " ", "x", " ", "(", "n", "u", "l", "l", ")">>,
      <<"R", "E", "S", "E", "R", "V", "E", " ", "x", " ", "1", "a", " ", "(", "n", "u", "l", "l", ")">>,
      <<"R", "E", "S", "E", "R", "V", "E", " ", "x", " ", "+", "4", " ", "(", "n", "u", "l", "l", ")">>,
      <<"R", "E", "S", "E", "R", "V", "E", " ", "x", " ", "4", "\n", "(", "n", "u", "l", "l", ")">> }

\* Every keyword that takes an operand, an operand for it, and the
\* instruction the two make.
GaplessCases ==
    { [kw |-> <<"I", "C", "O", "N", "S", "T">>, operand |-> <<"5">>, instr |-> Iconst(I64(5))],
      [kw |-> <<"I", "C", "O", "N", "S", "T">>, operand |-> <<"-", "5">>, instr |-> Iconst(I64(-5))],
      [kw |-> <<"I", "C", "O", "N", "S", "T">>, operand |-> <<"+", "5">>, instr |-> Iconst(I64(5))],
      [kw |-> <<"S", "C", "O", "N", "S", "T">>, operand |-> <<"\"", "a", "\"">>, instr |-> Sconst(<<"a">>)],
      [kw |-> <<"R", "E", "S", "E", "R", "V", "E">>, operand |-> <<"x", " ", "4", " ", "(", "n", "u", "l", "l", ")">>, instr |-> ReserveInt(<<"x">>)],
      [kw |-> <<"R", "E", "S", "E", "R", "V", "E">>, operand |-> <<"x", " ", "4", " ", "\"", "a", "\"">>, instr |-> ReserveString(<<"x">>, I64(4), <<"a">>)],
      [kw |-> <<"R", "E", "A", "D">>, operand |-> <<"x">>, instr |-> Read(<<"x">>)],
      [kw |-> <<"W", "R", "I", "T", "E">>, operand |-> <<"x">>, instr |-> Write(<<"x">>)],
      [kw |-> <<"A", "R", "G", "L", "O", "C", "A", "L", "_", "R", "E", "A", "D">>, operand |-> <<"1">>, instr |-> ArgLocalRead(I64(1))],
      [kw |-> <<"A", "R", "G", "L", "O", "C", "A", "L", "_", "W", "R", "I", "T", "E">>, operand |-> <<"1">>, instr |-> ArgLocalWrite(I64(1))],
      [kw |-> <<"J", "U", "M", "P">>, operand |-> <<"L", "0">>, instr |-> Jump(<<"L", "0">>)],
      [kw |-> <<"B", "R", "A", "N", "C", "H", "Z", "E", "R", "O">>, operand |-> <<"L", "0">>, instr |-> BranchZero(<<"L", "0">>)],
      [kw |-> <<"F", "U", "N", "C", "T", "I", "O", "N">>, operand |-> <<"f", " ", "1">>, instr |-> Function(<<"f">>, I64(1))],
      [kw |-> <<"C", "A", "L", "L">>, operand |-> <<"f", " ", "1">>, instr |-> Call(<<"f">>, I64(1))],
      [kw |-> <<"I", "N", "T", "R", "I", "N", "S", "I", "C">>, operand |-> <<"e", "x", "i", "t">>, instr |-> Intrinsic("Exit")],
      [kw |-> <<"I", "N", "T", "R", "I", "N", "S", "I", "C">>, operand |-> <<"P", "R", "I", "N", "T", "_", "I", "N", "T">>, instr |-> Intrinsic("PrintInt")],
      [kw |-> <<"P", "U", "S", "H">>, operand |-> <<"1">>, instr |-> Push(I64(1))],
      [kw |-> <<"P", "O", "P">>, operand |-> <<"-", "1">>, instr |-> Pop(I64(-1))] }
\* The keyword as it is and in lower case, then the operand: at once, after
\* one space, and at once with a colon after the operand.
Spellings(c) == {c.kw, Lower(c.kw)}
GaplessInputs == UNION {{w \o c.operand : w \in Spellings(c)} : c \in GaplessCases}
OneSpaceInputs ==
    UNION {{w \o <<" ">> \o c.operand : w \in Spellings(c)} : c \in GaplessCases}
ColonCases ==
    {c \in GaplessCases : c.kw \in {<<"R", "E", "A", "D">>, <<"W", "R", "I", "T", "E">>, <<"I", "C", "O", "N", "S", "T">>}}
GaplessColonInputs ==
    UNION {{w \o c.operand \o <<":">> : w \in Spellings(c)} : c \in ColonCases}

TextInputs ==
    LabelInputs \cup RetInputs \cup AdjacentInputs \cup SeparatedInputs
        \cup LineSpanInputs \cup OneLineInputs \cup FrameInputs
        \cup LiteralInputs \cup BadEscapeInputs \cup TrailingBackslashInputs
        \cup UnsignedInputs \cup ReserveInputs \cup NullSizeInputs
        \cup BadSizeInputs \cup GaplessInputs \cup OneSpaceInputs
        \cup GaplessColonInputs

InitText ==
    /\ aInput \in TextInputs
    /\ aPc = "start" /\ aNode = [k |-> "none"] /\ aProgram = [k |-> "none"]
    /\ aString = [k |-> "none"]
    /\ IdleInterpret /\ IdleCodec /\ IdleRun

\* assemble::string_literal(aInput)
ParseString ==
    /\ aPc = "done"
    /\ aString' = string_literal(aInput)
    /\ aPc' = "string"
    /\ UNCHANGED <<aInput, aNode, aProgram, ivars, cvars, rvars>>

\* The program that was parsed is encoded: write_bytecode(&prog, ..).
EncodeText ==
    /\ aPc = "string" /\ aProgram.k = "ok"
    /\ cProg' = aProgram.v
    /\ cOut' = write_bytecode(aProgram.v, NewSink)
    /\ cPc' = "encoded"
    /\ aPc' = "encoded"
    /\ UNCHANGED <<cNext, cDec, aInput, aNode, aProgram, aString, ivars, rvars>>

NextText == ParseNode \/ ParseProgram \/ ParseString \/ EncodeText
SpecText == InitText /\ [][NextText]_vars

-----------------------------------------------------------------------------
(* Properties of the assembler on the chosen texts *)

\* C11 (as claimed): for every identifier id, those that are or begin with
\* an opcode keyword included, node(id ":") is Label(id) with nothing left
\* unconsumed, and program(id ":") is the one-instruction program
\* [Label(id)].
C11_IdentifierColonIsLabel ==
    (aInput \in LabelInputs /\ aPc \in {"done", "string"}) =>
        /\ aNode = Ok(<<>>, Label(Take(aInput, Len(aInput) - 1)))
        /\ aProgram = [k |-> "ok", v |-> <<Label(Take(aInput, Len(aInput) - 1))>>]

\* The text starts with an identifier that is longer than RET and begins
\* with its letters, in any case.
BeginsWithRet(id) ==
    id.k = "ok" /\ Len(id.v) > 3 /\ tag_no_case(<<"R", "E", "T">>, id.v).k = "ok"
LongerThanRet(text) == BeginsWithRet(identifier(text))

\* C12 (as claimed): the RET rule matches the keyword exactly, not as a
\* prefix; on a text whose leading identifier is longer than ret and only
\* starts with those letters, such as "return", node does not yield Ret.
C12_RetIsKeywordExact ==
    (aPc # "start" /\ LongerThanRet(aInput)) =>
        ~(aNode.k = "ok" /\ aNode.v = Ret)

\* After the instruction node took, the next one starts at once.
NextFollowsAtOnce(f) == f.k = "ok" /\ f.rest # <<>> /\ node(f.rest).k = "ok"

\* C13: program accepts two successive instructions only with a separator
\* (whitespace, newlines included, a block comment or a line comment)
\* between them.  A text in which the instruction node takes is followed at
\* once by a next one is rejected; a text made of two instructions put end
\* to end never gives these two instructions; and a text that is accepted
\* with two instructions or more has a separator between each two.
C13_SeparatorRequired ==
    aPc \in {"done", "string"} =>
        /\ NextFollowsAtOnce(aNode) => aProgram.k # "ok"
        /\ aInput \in AdjacentInputs =>
              \A x, y \in WholeInstructions :
                  aInput = x \o y =>
                      aProgram # [k |-> "ok", v |-> <<node(x).v, node(y).v>>]
        /\ (aProgram.k = "ok" /\ Len(aProgram.v) >= 2) =>
              IsWholly(aInput, aProgram.v)

\* "ADDSUB": node takes ADD, SUB follows at once, program rejects the text;
C13_Witness ==
    /\ aInput = <<"A", "D", "D", "S", "U", "B">> /\ aPc = "done"
    /\ aNode = Ok(<<"S", "U", "B">>, NoArg("Add"))
    /\ aProgram = ParseError

\* C14 (as claimed): the operands of an instruction cannot span lines.  A
\* text with a newline between the keyword and an operand, or between two
\* operands, be it bare or inside a block comment put there, is not parsed
\* as the instruction that the same text with a space at that place is.
C14_OperandsOnOneLine ==
    (aInput \in LineSpanInputs /\ aPc # "start") =>
        \A p \in OperandSplits : \A g \in NewlineGaps :
            aInput = p[1] \o g \o p[2] =>
                ~(aNode.k = "ok" /\ aNode.v = node(p[1] \o <<" ">> \o p[2]).v)

LiteralCases ==
    { [text |-> Quoted(BodySrc(ps)) \o t, rest |-> t, val |-> BodyVal(ps)] :
          ps \in LiteralBodies, t \in LiteralTails }
C16_LiteralUnescaped ==
    (aInput \in LiteralInputs /\ aPc = "string") =>
        /\ aString.k = "ok"
        /\ \A c \in LiteralCases :
              c.text = aInput => (aString.rest = c.rest /\ aString.v = c.val)

\* The literal "a\"b", six characters long, yields the three characters a"b.
C16_Witness ==
    /\ aInput = <<"\"", "a", "\\", "\"", "b", "\"">> /\ aPc = "string"
    /\ aString = Ok(<<>>, <<"a", "\"", "b">>)

C18_UnsignedRejectsIdentifier ==
    (aInput \in UnsignedInputs /\ aPc # "start") =>
        \A h \in UnsignedHeads : \A t \in UnsignedTails :
            \A o \in NegativeLiterals \cup NamedOperands \cup DigitLedIdentifiers :
                aInput = h \o o \o t => aNode = ParseError

\* C18 (amended): these operands reject a negative literal and an
\* identifier that does not start with a digit: node returns a parse
\* failure for the whole instruction, and so does program.  Of an identifier
\* that starts with digits node reads the digits at most, and program
\* rejects the text.
C18_UnsignedRejectsNegativeAndNamed ==
    (aInput \in UnsignedInputs /\ aPc # "start") =>
        \A h \in UnsignedHeads : \A t \in UnsignedTails :
            /\ \A o \in NegativeLiterals \cup NamedOperands :
                  aInput = h \o o \o t =>
                      /\ aNode = ParseError
                      /\ aPc \in {"done", "string"} => aProgram = ParseError
            /\ \A o \in DigitLedIdentifiers :
                  aInput = h \o o \o t =>
                      /\ aNode.k \in {"ok", "err"}
                      /\ aNode.k = "ok" => Len(aNode.rest) >= Len(t) + 1
                      /\ aPc \in {"done", "string"} => aProgram = ParseError

\* "ARGLOCAL_READ -1" is a parse failure.
C18_Witness ==
    /\ aInput = <<"A", "R", "G", "L", "O", "C", "A", "L", "_", "R", "E", "A", "D", " ", "-", "1">> /\ aPc = "node"
    /\ aNode = ParseError

\* C19 (as claimed): RESERVE name size X.  When what follows the size starts
\* with a double quote the result is ReserveString with that name, that
\* size and the unescaped literal as initial value; otherwise (null), in any
\* case, has to follow and the result is ReserveInt with that name; any
\* other continuation is a parse failure.
C19_ReserveStringOrNull ==
    (aInput \in ReserveInputs /\ aPc # "start") =>
        \A h \in ReserveHeads :
            /\ \A l \in ReserveLiterals :
                  aInput = h.text \o l.src =>
                      aNode = Ok(<<>>, ReserveString(h.name, h.size, l.val))
            /\ \A n \in NullTexts :
                  aInput = h.text \o n => aNode = Ok(<<>>, ReserveInt(h.name))
            /\ \A c \in OtherContinuations :
                  aInput = h.text \o c => aNode = ParseError

-----------------------------------------------------------------------------
(* The stack machine (the engine's interpret): the execution model of the  *)
(* format description.  Integers are 32 bits wide, as on the wire.          *)

\* A 32-bit integer as decoded, as an integer of the model.
ToInt32(v) == IF v.hi = 0 THEN v.lo ELSE (v.lo - 2147483647) - 1

\* Addition on 32 bits, two's complement: the sum less 2^32 when it is
\* above 2^31 - 1, plus 2^32 when it is below -2^31.
Add32(a, b) ==
    IF a > 0 /\ b > 0 /\ a > 2147483647 - b
    THEN ((a - 2147483647) - 1) + ((b - 2147483647) - 1)
    ELSE IF a < 0 /\ b < 0 /\ a < (-2147483647 - 1) - b
    THEN ((a + 2147483647) + 1) + ((b + 2147483647) + 1)
    ELSE a + b

\* The decimal text of an integer.
RECURSIVE DecimalDigits(_)
DecimalDigits(n) ==
    IF n < 10 THEN <<DigitChars[n + 1]>>
    ELSE DecimalDigits(n \div 10) \o <<DigitChars[(n % 10) + 1]>>
ToDecimal(n) ==
    IF n >= 0 THEN DecimalDigits(n)
    ELSE IF n = -2147483647 - 1 THEN <<"-", "2", "1", "4", "7", "4", "8", "3", "6", "4", "8">>
    ELSE <<"-">> \o DecimalDigits(-n)

\* The items of the operand stack.
IntItem(n) == [kind |-> "Int", val |-> n]
StrItem(s) == [kind |-> "String", val |-> s]
TopItem(stack) == stack[Len(stack)]
Below(stack, n) == Take(stack, Len(stack) - n)
HasInts(stack, n) ==
    /\ Len(stack) >= n
    /\ \A j \in 1..n : stack[Len(stack) - j + 1].kind = "Int"

\* The address table: the offset of the Label of that name, 0 if there is
\* none.
RECURSIVE LabelAddress(_, _, _)
LabelAddress(prog, name, n) ==
    IF n > Len(prog) THEN 0
    ELSE IF prog[n].op = "Label" /\ prog[n].label = name THEN n
    ELSE LabelAddress(prog, name, n + 1)

\* The machine after a step: its state, instruction pointer, operand stack
\* and output.
Machine(pc, ip, stack, out) == [pc |-> pc, ip |-> ip, stack |-> stack, out |-> out]
\* A fatal runtime error: the run is aborted where it stands.
Fatal(ip, stack, out) == Machine("failed", ip, stack, out)

JumpTo(address, ip, stack, out) ==
    IF address = 0 THEN Fatal(ip, stack, out)
    ELSE Machine("running", address, stack, out)

ExecIntrinsic(k, ip, stack, out) ==
    CASE k = "Exit" -> Machine("done", ip, stack, out)
      [] k = "PrintInt" ->
            IF HasInts(stack, 1)
            THEN Machine("running", ip + 1, Below(stack, 1),
                         out \o ToDecimal(TopItem(stack).val))
            ELSE Fatal(ip, stack, out)
      [] k = "PrintString" ->
            IF stack # <<>> /\ TopItem(stack).kind = "String"
            THEN Machine("running", ip + 1, Below(stack, 1),
                         out \o TopItem(stack).val)
            ELSE Fatal(ip, stack, out)

\* The instructions the machine is given here.
Executable ==
    {"Nop", "Label", "Iconst", "Sconst", "Add", "Jump", "BranchZero",
     "Intrinsic", "Function", "Call", "Ret", "ArgLocalRead", "ArgLocalWrite"}

\* One instruction of prog, at ip, of those that leave the call stack alone.
\* A Function marker met in sequence is passed over like a Label.
ExecOperand(prog, ip, stack, out) ==
    IF ip > Len(prog) THEN Machine("done", ip, stack, out)
    ELSE CASE prog[ip].op \in {"Nop", "Label", "Function"} ->
                Machine("running", ip + 1, stack, out)
           [] prog[ip].op = "Iconst" ->
                Machine("running", ip + 1,
                        Append(stack, IntItem(ToInt32(prog[ip].num))), out)
           [] prog[ip].op = "Sconst" ->
                Machine("running", ip + 1,
                        Append(stack, StrItem(prog[ip].text)), out)
           [] prog[ip].op = "Add" ->
                IF HasInts(stack, 2)
                THEN Machine("running", ip + 1,
                             Append(Below(stack, 2),
                                    IntItem(Add32(stack[Len(stack) - 1].val,
                                                  TopItem(stack).val))), out)
                ELSE Fatal(ip, stack, out)
           [] prog[ip].op = "Jump" ->
                JumpTo(LabelAddress(prog, prog[ip].label, 1), ip, stack, out)
           [] prog[ip].op = "BranchZero" ->
                IF ~HasInts(stack, 1) THEN Fatal(ip, stack, out)
                ELSE IF TopItem(stack).val = 0
                THEN JumpTo(LabelAddress(prog, prog[ip].label, 1), ip,
                            Below(stack, 1), out)
                ELSE Machine("running", ip + 1, Below(stack, 1), out)
           [] prog[ip].op = "Intrinsic" ->
                ExecIntrinsic(prog[ip].intrinsic, ip, stack, out)

\* The machine with its call stack.
InFrames(m, frames) ==
    [pc |-> m.pc, ip |-> m.ip, stack |-> m.stack, out |-> m.out,
     frames |-> frames]

\* A frame: its local slots, and the position to resume at.
Frame(locals, resume) == [locals |-> locals, resume |-> resume]

\* The offset of the Function marker of that name, 0 if there is none.
RECURSIVE FunctionAddress(_, _, _)
FunctionAddress(prog, name, n) ==
    IF n > Len(prog) THEN 0
    ELSE IF prog[n].op = "Function" /\ prog[n].label = name THEN n
    ELSE FunctionAddress(prog, name, n + 1)

\* The slots of a new frame mistaken: the arguments one slot further on.
NewLocalsShifted(stack, n, locs) ==
    [j \in 1..locs |-> IF 1 < j /\ j <= n + 1 THEN stack[Len(stack) - n + j - 1]
                       ELSE IntItem(0)]

\* The slots of a new frame: locs of them, the first n holding the n values
\* on top of the caller's stack, the deepest first, the others zero.
NewLocals(stack, n, locs) ==
    [j \in 1..locs |-> IF j <= n THEN stack[Len(stack) - n + j]
                       ELSE IntItem(0)]

\* Call name n, with the Function marker at address: fatal when no Function
\* has that name, when the stack holds fewer than n values, when the frame
\* has fewer than n slots.
ExecCall(address, n, prog, ip, stack, out, frames) ==
    IF address = 0 \/ Len(stack) < n THEN InFrames(Fatal(ip, stack, out), frames)
    ELSE IF n > ToInt32(prog[address].num_locs)
    THEN InFrames(Fatal(ip, stack, out), frames)
    ELSE InFrames(Machine("running", address + 1, Below(stack, n), out),
                  Append(frames,
                         Frame(NewLocals(stack, n, ToInt32(prog[address].num_locs)),
                               ip + 1)))

\* Ret: fatal outside any call.
ExecRet(ip, stack, out, frames) ==
    IF frames = <<>> THEN InFrames(Fatal(ip, stack, out), frames)
    ELSE InFrames(Machine("running", frames[Len(frames)].resume, stack, out),
                  Take(frames, Len(frames) - 1))

\* Is index a slot of the current frame?
InFrame(index, frames) ==
    /\ frames # <<>>
    /\ index >= 0
    /\ index < Len(frames[Len(frames)].locals)

ExecArgLocalRead(index, ip, stack, out, frames) ==
    IF ~InFrame(index, frames) THEN InFrames(Fatal(ip, stack, out), frames)
    ELSE InFrames(Machine("running", ip + 1,
                          Append(stack, frames[Len(frames)].locals[index + 1]),
                          out), frames)

ExecArgLocalWrite(index, ip, stack, out, frames) ==
    IF ~InFrame(index, frames) \/ stack = <<>>
    THEN InFrames(Fatal(ip, stack, out), frames)
    ELSE InFrames(Machine("running", ip + 1, Below(stack, 1), out),
                  [frames EXCEPT ![Len(frames)].locals[index + 1] = TopItem(stack)])

\* One instruction of prog, at ip.
Exec(prog, ip, stack, out, frames) ==
    IF ip > Len(prog) THEN InFrames(ExecOperand(prog, ip, stack, out), frames)
    ELSE CASE prog[ip].op = "Call" ->
                ExecCall(FunctionAddress(prog, prog[ip].label, 1),
                         ToInt32(prog[ip].num_args), prog, ip, stack, out, frames)
           [] prog[ip].op = "Ret" -> ExecRet(ip, stack, out, frames)
           [] prog[ip].op = "ArgLocalRead" ->
                ExecArgLocalRead(ToInt32(prog[ip].index), ip, stack, out, frames)
           [] prog[ip].op = "ArgLocalWrite" ->
                ExecArgLocalWrite(ToInt32(prog[ip].index), ip, stack, out, frames)
           [] OTHER -> InFrames(ExecOperand(prog, ip, stack, out), frames)

-----------------------------------------------------------------------------
(* A text from end to end: assembled by program, encoded by write_bytecode *)
(* into the engine's input, read back by the engine and run.               *)

\* Two constants, in decimal, and the decimal text of their 32-bit sum.
RunCases ==
    { [a |-> <<"2", "0">>, b |-> <<"2", "2">>, sum |-> <<"4", "2">>],
      [a |-> <<"0">>, b |-> <<"0">>, sum |-> <<"0">>],
      [a |-> <<"1">>, b |-> <<"-", "1">>, sum |-> <<"0">>],
      [a |-> <<"-", "1">>, b |-> <<"-", "1">>, sum |-> <<"-", "2">>],
      [a |-> <<"-", "5">>, b |-> <<"3">>, sum |-> <<"-", "2">>],
      [a |-> <<"1", "0", "0">>, b |-> <<"-", "1", "0", "0">>, sum |-> <<"0">>],
      [a |-> <<"2", "1", "4", "7", "4", "8", "3", "6", "4", "7">>, b |-> <<"0">>, sum |-> <<"2", "1", "4", "7", "4", "8", "3", "6", "4", "7">>],
      [a |-> <<"2", "1", "4", "7", "4", "8", "3", "6", "4", "7">>, b |-> <<"1">>, sum |-> <<"-", "2", "1", "4", "7", "4", "8", "3", "6", "4", "8">>],
      [a |-> <<"2", "1", "4", "7", "4", "8", "3", "6", "4", "7">>, b |-> <<"2", "1", "4", "7", "4", "8", "3", "6", "4", "7">>, sum |-> <<"-", "2">>],
      [a |-> <<"-", "2", "1", "4", "7", "4", "8", "3", "6", "4", "8">>, b |-> <<"-", "1">>, sum |-> <<"2", "1", "4", "7", "4", "8", "3", "6", "4", "7">>],
      [a |-> <<"-", "2", "1", "4", "7", "4", "8", "3", "6", "4", "8">>, b |-> <<"-", "2", "1", "4", "7", "4", "8", "3", "6", "4", "8">>, sum |-> <<"0">>],
      [a |-> <<"-", "2", "1", "4", "7", "4", "8", "3", "6", "4", "8">>, b |-> <<"2", "1", "4", "7", "4", "8", "3", "6", "4", "7">>, sum |-> <<"-", "1">>],
      [a |-> <<"1", "0", "0", "0", "0", "0", "0">>, b |-> <<"2", "0", "0", "0", "0", "0", "0">>, sum |-> <<"3", "0", "0", "0", "0", "0", "0">>],
      [a |-> <<"+", "7">>, b |-> <<"8">>, sum |-> <<"1", "5">>],
      [a |-> <<"0", "0", "7">>, b |-> <<"1">>, sum |-> <<"8">>],
      [a |-> <<"-", "0">>, b |-> <<"0">>, sum |-> <<"0">>],
      [a |-> <<"6", "5", "5", "3", "5">>, b |-> <<"1">>, sum |-> <<"6", "5", "5", "3", "6">>],
      [a |-> <<"-", "2", "5", "6">>, b |-> <<"-", "2", "5", "6">>, sum |-> <<"-", "5", "1", "2">>] }
SumText(c) ==
    <<"I", "c", "o", "n", "s", "t", " ">> \o c.a \o <<"\n", "I", "c", "o", "n", "s", "t", " ">> \o c.b
        \o <<"\n", "A", "d", "d", "\n", "I", "n", "t", "r", "i", "n", "s", "i", "c", " ", "p", "r", "i", "n", "t", "_", "i", "n", "t", "\n", "I", "n", "t", "r", "i", "n", "s", "i", "c", " ", "e", "x", "i", "t">>
SumTexts == {SumText(c) : c \in RunCases}

\* Other texts: other letter cases and comments, no exit at the end, an
\* operand missing on the stack, a constant too wide for the wire, a text
\* that does not parse, jumps, a string, an exit before a print, nothing.
OtherRunTexts ==
    { <<"I", "C", "O", "N", "S", "T", " ", "2", "0", " ", "/", "*", " ", "a", " ", "*", "/", "\n", "I", "C", "O", "N", "S", "T", " ", "2", "2", " ", "#", " ", "b", "\n", "\n", "A", "D", "D", "\n", "I", "N", "T", "R", "I", "N", "S", "I", "C", " ", "P", "R", "I", "N", "T", "_", "I", "N", "T", "\n", "I", "N", "T", "R", "I", "N", "S", "I", "C", " ", "E", "X", "I", "T", "\n">>,
      <<"I", "c", "o", "n", "s", "t", " ", "1", "\n", "I", "n", "t", "r", "i", "n", "s", "i", "c", " ", "p", "r", "i", "n", "t", "_", "i", "n", "t">>,
      <<"I", "c", "o", "n", "s", "t", " ", "1", "\n", "I", "n", "t", "r", "i", "n", "s", "i", "c", " ", "p", "r", "i", "n", "t", "_", "i", "n", "t", "\n", "I", "n", "t", "r", "i", "n", "s", "i", "c", " ", "p", "r", "i", "n", "t", "_", "i", "n", "t">>,
      <<"I", "c", "o", "n", "s", "t", " ", "1", "\n", "A", "d", "d">>,
      <<"I", "c", "o", "n", "s", "t", " ", "2", "1", "4", "7", "4", "8", "3", "6", "4", "8", "\n", "I", "n", "t", "r", "i", "n", "s", "i", "c", " ", "e", "x", "i", "t">>,
      <<"I", "c", "o", "n", "s", "t", "\n", "2", "0">>,
      <<"J", "u", "m", "p", " ", "L", "\n", "I", "c", "o", "n", "s", "t", " ", "1", "\n", "I", "n", "t", "r", "i", "n", "s", "i", "c", " ", "p", "r", "i", "n", "t", "_", "i", "n", "t", "\n", "L", ":", "\n", "I", "n", "t", "r", "i", "n", "s", "i", "c", " ", "e", "x", "i", "t">>,
      <<"J", "u", "m", "p", " ", "M", "\n", "L", ":">>,
      <<"I", "c", "o", "n", "s", "t", " ", "0", "\n", "B", "r", "a", "n", "c", "h", "Z", "e", "r", "o", " ", "L", "\n", "I", "c", "o", "n", "s", "t", " ", "5", "\n", "I", "n", "t", "r", "i", "n", "s", "i", "c", " ", "p", "r", "i", "n", "t", "_", "i", "n", "t", "\n", "L", ":", "\n", "N", "o", "p">>,
      <<"I", "c", "o", "n", "s", "t", " ", "3", "\n", "B", "r", "a", "n", "c", "h", "Z", "e", "r", "o", " ", "L", "\n", "I", "c", "o", "n", "s", "t", " ", "5", "\n", "I", "n", "t", "r", "i", "n", "s", "i", "c", " ", "p", "r", "i", "n", "t", "_", "i", "n", "t", "\n", "L", ":", "\n", "N", "o", "p">>,
      <<"S", "c", "o", "n", "s", "t", " ", "\"", "h", "i", "\"", "\n", "I", "n", "t", "r", "i", "n", "s", "i", "c", " ", "p", "r", "i", "n", "t", "_", "s", "t", "r", "i", "n", "g", "\n", "I", "n", "t", "r", "i", "n", "s", "i", "c", " ", "e", "x", "i", "t">>,
      <<"I", "c", "o", "n", "s", "t", " ", "1", "\n", "I", "n", "t", "r", "i", "n", "s", "i", "c", " ", "e", "x", "i", "t", "\n", "I", "n", "t", "r", "i", "n", "s", "i", "c", " ", "p", "r", "i", "n", "t", "_", "i", "n", "t">>,
      <<>> }

\* Calls: a value v pushed, a function called with it as its one argument,
\* whose body reads its first slot (or passes it through its second slot, or
\* through a call of its own) and returns; what is on top is then printed.
CallCases ==
    { [text |-> <<"I", "c", "o", "n", "s", "t", " ", "0", "\n", "C", "a", "l", "l", " ", "f", " ", "1", "\n", "I", "n", "t", "r", "i", "n", "s", "i", "c", " ", "p", "r", "i", "n", "t", "_", "i", "n", "t", "\n", "I", "n", "t", "r", "i", "n", "s", "i", "c", " ", "e", "x", "i", "t", "\n", "F", "u", "n", "c", "t", "i", "o", "n", " ", "f", " ", "1", "\n", "A", "R", "G", "L", "O", "C", "A", "L", "_", "R", "E", "A", "D", " ", "0", "\n", "R", "e", "t">>, v |-> 0, printed |-> <<"0">>],
      [text |-> <<"I", "c", "o", "n", "s", "t", " ", "7", "\n", "C", "a", "l", "l", " ", "f", " ", "1", "\n", "I", "n", "t", "r", "i", "n", "s", "i", "c", " ", "p", "r", "i", "n", "t", "_", "i", "n", "t", "\n", "I", "n", "t", "r", "i", "n", "s", "i", "c", " ", "e", "x", "i", "t", "\n", "F", "u", "n", "c", "t", "i", "o", "n", " ", "f", " ", "1", "\n", "A", "R", "G", "L", "O", "C", "A", "L", "_", "R", "E", "A", "D", " ", "0", "\n", "R", "e", "t">>, v |-> 7, printed |-> <<"7">>],
      [text |-> <<"I", "c", "o", "n", "s", "t", " ", "-", "1", "\n", "C", "a", "l", "l", " ", "f", " ", "1", "\n", "I", "n", "t", "r", "i", "n", "s", "i", "c", " ", "p", "r", "i", "n", "t", "_", "i", "n", "t", "\n", "I", "n", "t", "r", "i", "n", "s", "i", "c", " ", "e", "x", "i", "t", "\n", "F", "u", "n", "c", "t", "i", "o", "n", " ", "f", " ", "1", "\n", "A", "R", "G", "L", "O", "C", "A", "L", "_", "R", "E", "A", "D", " ", "0", "\n", "R", "e", "t">>, v |-> -1, printed |-> <<"-", "1">>],
      [text |-> <<"I", "c", "o", "n", "s", "t", " ", "2", "1", "4", "7", "4", "8", "3", "6", "4", "7", "\n", "C", "a", "l", "l", " ", "f", " ", "1", "\n", "I", "n", "t", "r", "i", "n", "s", "i", "c", " ", "p", "r", "i", "n", "t", "_", "i", "n", "t", "\n", "I", "n", "t", "r", "i", "n", "s", "i", "c", " ", "e", "x", "i", "t", "\n", "F", "u", "n", "c", "t", "i", "o", "n", " ", "f", " ", "1", "\n", "A", "R", "G", "L", "O", "C", "A", "L", "_", "R", "E", "A", "D", " ", "0", "\n", "R", "e", "t">>, v |-> 2147483647, printed |-> <<"2", "1", "4", "7", "4", "8", "3", "6", "4", "7">>],
      [text |-> <<"I", "c", "o", "n", "s", "t", " ", "-", "2", "1", "4", "7", "4", "8", "3", "6", "4", "8", "\n", "C", "a", "l", "l", " ", "f", " ", "1", "\n", "I", "n", "t", "r", "i", "n", "s", "i", "c", " ", "p", "r", "i", "n", "t", "_", "i", "n", "t", "\n", "I", "n", "t", "r", "i", "n", "s", "i", "c", " ", "e", "x", "i", "t", "\n", "F", "u", "n", "c", "t", "i", "o", "n", " ", "f", " ", "1", "\n", "A", "R", "G", "L", "O", "C", "A", "L", "_", "R", "E", "A", "D", " ", "0", "\n", "R", "e", "t">>, v |-> -2147483647 - 1, printed |-> <<"-", "2", "1", "4", "7", "4", "8", "3", "6", "4", "8">>],
      [text |-> <<"I", "c", "o", "n", "s", "t", " ", "+", "1", "2", "\n", "C", "a", "l", "l", " ", "f", " ", "1", "\n", "I", "n", "t", "r", "i", "n", "s", "i", "c", " ", "p", "r", "i", "n", "t", "_", "i", "n", "t", "\n", "I", "n", "t", "r", "i", "n", "s", "i", "c", " ", "e", "x", "i", "t", "\n", "F", "u", "n", "c", "t", "i", "o", "n", " ", "f", " ", "1", "\n", "A", "R", "G", "L", "O", "C", "A", "L", "_", "R", "E", "A", "D", " ", "0", "\n", "R", "e", "t">>, v |-> 12, printed |-> <<"1", "2">>],
      [text |-> <<"I", "C", "O", "N", "S", "T", " ", "0", "\n", "C", "A", "L", "L", " ", "f", " ", "1", "\n", "I", "N", "T", "R", "I", "N", "S", "I", "C", " ", "P", "R", "I", "N", "T", "_", "I", "N", "T", "\n", "I", "N", "T", "R", "I", "N", "S", "I", "C", " ", "E", "X", "I", "T", "\n", "F", "U", "N", "C", "T", "I", "O", "N", " ", "f", " ", "2", "\n", "A", "R", "G", "L", "O", "C", "A", "L", "_", "R", "E", "A", "D", " ", "0", "\n", "A", "R", "G", "L", "O", "C", "A", "L", "_", "W", "R", "I", "T", "E", " ", "1", "\n", "A", "R", "G", "L", "O", "C", "A", "L", "_", "R", "E", "A", "D", " ", "1", "\n", "R", "E", "T">>, v |-> 0, printed |-> <<"0">>],
      [text |-> <<"I", "C", "O", "N", "S", "T", " ", "7", "\n", "C", "A", "L", "L", " ", "f", " ", "1", "\n", "I", "N", "T", "R", "I", "N", "S", "I", "C", " ", "P", "R", "I", "N", "T", "_", "I", "N", "T", "\n", "I", "N", "T", "R", "I", "N", "S", "I", "C", " ", "E", "X", "I", "T", "\n", "F", "U", "N", "C", "T", "I", "O", "N", " ", "f", " ", "2", "\n", "A", "R", "G", "L", "O", "C", "A", "L", "_", "R", "E", "A", "D", " ", "0", "\n", "A", "R", "G", "L", "O", "C", "A", "L", "_", "W", "R", "I", "T", "E", " ", "1", "\n", "A", "R", "G", "L", "O", "C", "A", "L", "_", "R", "E", "A", "D", " ", "1", "\n", "R", "E", "T">>, v |-> 7, printed |-> <<"7">>],
      [text |-> <<"I", "C", "O", "N", "S", "T", " ", "-", "1", "\n", "C", "A", "L", "L", " ", "f", " ", "1", "\n", "I", "N", "T", "R", "I", "N", "S", "I", "C", " ", "P", "R", "I", "N", "T", "_", "I", "N", "T", "\n", "I", "N", "T", "R", "I", "N", "S", "I", "C", " ", "E", "X", "I", "T", "\n", "F", "U", "N", "C", "T", "I", "O", "N", " ", "f", " ", "2", "\n", "A", "R", "G", "L", "O", "C", "A", "L", "_", "R", "E", "A", "D", " ", "0", "\n", "A", "R", "G", "L", "O", "C", "A", "L", "_", "W", "R", "I", "T", "E", " ", "1", "\n", "A", "R", "G", "L", "O", "C", "A", "L", "_", "R", "E", "A", "D", " ", "1", "\n", "R", "E", "T">>, v |-> -1, printed |-> <<"-", "1">>],
      [text |-> <<"I", "C", "O", "N", "S", "T", " ", "2", "1", "4", "7", "4", "8", "3", "6", "4", "7", "\n", "C", "A", "L", "L", " ", "f", " ", "1", "\n", "I", "N", "T", "R", "I", "N", "S", "I", "C", " ", "P", "R", "I", "N", "T", "_", "I", "N", "T", "\n", "I", "N", "T", "R", "I", "N", "S", "I", "C", " ", "E", "X", "I", "T", "\n", "F", "U", "N", "C", "T", "I", "O", "N", " ", "f", " ", "2", "\n", "A", "R", "G", "L", "O", "C", "A", "L", "_", "R", "E", "A", "D", " ", "0", "\n", "A", "R", "G", "L", "O", "C", "A", "L", "_", "W", "R", "I", "T", "E", " ", "1", "\n", "A", "R", "G", "L", "O", "C", "A", "L", "_", "R", "E", "A", "D", " ", "1", "\n", "R", "E", "T">>, v |-> 2147483647, printed |-> <<"2", "1", "4", "7", "4", "8", "3", "6", "4", "7">>],
      [text |-> <<"I", "C", "O", "N", "S", "T", " ", "-", "2", "1", "4", "7", "4", "8", "3", "6", "4", "8", "\n", "C", "A", "L", "L", " ", "f", " ", "1", "\n", "I", "N", "T", "R", "I", "N", "S", "I", "C", " ", "P", "R", "I", "N", "T", "_", "I", "N", "T", "\n", "I", "N", "T", "R", "I", "N", "S", "I", "C", " ", "E", "X", "I", "T", "\n", "F", "U", "N", "C", "T", "I", "O", "N", " ", "f", " ", "2", "\n", "A", "R", "G", "L", "O", "C", "A", "L", "_", "R", "E", "A", "D", " ", "0", "\n", "A", "R", "G", "L", "O", "C", "A", "L", "_", "W", "R", "I", "T", "E", " ", "1", "\n", "A", "R", "G", "L", "O", "C", "A", "L", "_", "R", "E", "A", "D", " ", "1", "\n", "R", "E", "T">>, v |-> -2147483647 - 1, printed |-> <<"-", "2", "1", "4", "7", "4", "8", "3", "6", "4", "8">>],
      [text |-> <<"I", "C", "O", "N", "S", "T", " ", "+", "1", "2", "\n", "C", "A", "L", "L", " ", "f", " ", "1", "\n", "I", "N", "T", "R", "I", "N", "S", "I", "C", " ", "P", "R", "I", "N", "T", "_", "I", "N", "T", "\n", "I", "N", "T", "R", "I", "N", "S", "I", "C", " ", "E", "X", "I", "T", "\n", "F", "U", "N", "C", "T", "I", "O", "N", " ", "f", " ", "2", "\n", "A", "R", "G", "L", "O", "C", "A", "L", "_", "R", "E", "A", "D", " ", "0", "\n", "A", "R", "G", "L", "O", "C", "A", "L", "_", "W", "R", "I", "T", "E", " ", "1", "\n", "A", "R", "G", "L", "O", "C", "A", "L", "_", "R", "E", "A", "D", " ", "1", "\n", "R", "E", "T">>, v |-> 12, printed |-> <<"1", "2">>],
      [text |-> <<"I", "c", "o", "n", "s", "t", " ", "0", "\n", "C", "a", "l", "l", " ", "g", " ", "1", "\n", "I", "n", "t", "r", "i", "n", "s", "i", "c", " ", "p", "r", "i", "n", "t", "_", "i", "n", "t", "\n", "I", "n", "t", "r", "i", "n", "s", "i", "c", " ", "e", "x", "i", "t", "\n", "F", "u", "n", "c", "t", "i", "o", "n", " ", "g", " ", "1", "\n", "A", "r", "g", "L", "o", "c", "a", "l", "_", "R", "e", "a", "d", " ", "0", "\n", "C", "a", "l", "l", " ", "f", " ", "1", "\n", "R", "e", "t", "\n", "F", "u", "n", "c", "t", "i", "o", "n", " ", "f", " ", "1", "\n", "A", "r", "g", "L", "o", "c", "a", "l", "_", "R", "e", "a", "d", " ", "0", "\n", "R", "e", "t">>, v |-> 0, printed |-> <<"0">>],
      [text |-> <<"I", "c", "o", "n", "s", "t", " ", "7", "\n", "C", "a", "l", "l", " ", "g", " ", "1", "\n", "I", "n", "t", "r", "i", "n", "s", "i", "c", " ", "p", "r", "i", "n", "t", "_", "i", "n", "t", "\n", "I", "n", "t", "r", "i", "n", "s", "i", "c", " ", "e", "x", "i", "t", "\n", "F", "u", "n", "c", "t", "i", "o", "n", " ", "g", " ", "1", "\n", "A", "r", "g", "L", "o", "c", "a", "l", "_", "R", "e", "a", "d", " ", "0", "\n", "C", "a", "l", "l", " ", "f", " ", "1", "\n", "R", "e", "t", "\n", "F", "u", "n", "c", "t", "i", "o", "n", " ", "f", " ", "1", "\n", "A", "r", "g", "L", "o", "c", "a", "l", "_", "R", "e", "a", "d", " ", "0", "\n", "R", "e", "t">>, v |-> 7, printed |-> <<"7">>],
      [text |-> <<"I", "c", "o", "n", "s", "t", " ", "-", "1", "\n", "C", "a", "l", "l", " ", "g", " ", "1", "\n", "I", "n", "t", "r", "i", "n", "s", "i", "c", " ", "p", "r", "i", "n", "t", "_", "i", "n", "t", "\n", "I", "n", "t", "r", "i", "n", "s", "i", "c", " ", "e", "x", "i", "t", "\n", "F", "u", "n", "c", "t", "i", "o", "n", " ", "g", " ", "1", "\n", "A", "r", "g", "L", "o", "c", "a", "l", "_", "R", "e", "a", "d", " ", "0", "\n", "C", "a", "l", "l", " ", "f", " ", "1", "\n", "R", "e", "t", "\n", "F", "u", "n", "c", "t", "i", "o", "n", " ", "f", " ", "1", "\n", "A", "r", "g", "L", "o", "c", "a", "l", "_", "R", "e", "a", "d", " ", "0", "\n", "R", "e", "t">>, v |-> -1, printed |-> <<"-", "1">>],
      [text |-> <<"I", "c", "o", "n", "s", "t", " ", "2", "1", "4", "7", "4", "8", "3", "6", "4", "7", "\n", "C", "a", "l", "l", " ", "g", " ", "1", "\n", "I", "n", "t", "r", "i", "n", "s", "i", "c", " ", "p", "r", "i", "n", "t", "_", "i", "n", "t", "\n", "I", "n", "t", "r", "i", "n", "s", "i", "c", " ", "e", "x", "i", "t", "\n", "F", "u", "n", "c", "t", "i", "o", "n", " ", "g", " ", "1", "\n", "A", "r", "g", "L", "o", "c", "a", "l", "_", "R", "e", "a", "d", " ", "0", "\n", "C", "a", "l", "l", " ", "f", " ", "1", "\n", "R", "e", "t", "\n", "F", "u", "n", "c", "t", "i", "o", "n", " ", "f", " ", "1", "\n", "A", "r", "g", "L", "o", "c", "a", "l", "_", "R", "e", "a", "d", " ", "0", "\n", "R", "e", "t">>, v |-> 2147483647, printed |-> <<"2", "1", "4", "7", "4", "8", "3", "6", "4", "7">>],
      [text |-> <<"I", "c", "o", "n", "s", "t", " ", "-", "2", "1", "4", "7", "4", "8", "3", "6", "4", "8", "\n", "C", "a", "l", "l", " ", "g", " ", "1", "\n", "I", "n", "t", "r", "i", "n", "s", "i", "c", " ", "p", "r", "i", "n", "t", "_", "i", "n", "t", "\n", "I", "n", "t", "r", "i", "n", "s", "i", "c", " ", "e", "x", "i", "t", "\n", "F", "u", "n", "c", "t", "i", "o", "n", " ", "g", " ", "1", "\n", "A", "r", "g", "L", "o", "c", "a", "l", "_", "R", "e", "a", "d", " ", "0", "\n", "C", "a", "l", "l", " ", "f", " ", "1", "\n", "R", "e", "t", "\n", "F", "u", "n", "c", "t", "i", "o", "n", " ", "f", " ", "1", "\n", "A", "r", "g", "L", "o", "c", "a", "l", "_", "R", "e", "a", "d", " ", "0", "\n", "R", "e", "t">>, v |-> -2147483647 - 1, printed |-> <<"-", "2", "1", "4", "7", "4", "8", "3", "6", "4", "8">>],
      [text |-> <<"I", "c", "o", "n", "s", "t", " ", "+", "1", "2", "\n", "C", "a", "l", "l", " ", "g", " ", "1", "\n", "I", "n", "t", "r", "i", "n", "s", "i", "c", " ", "p", "r", "i", "n", "t", "_", "i", "n", "t", "\n", "I", "n", "t", "r", "i", "n", "s", "i", "c", " ", "e", "x", "i", "t", "\n", "F", "u", "n", "c", "t", "i", "o", "n", " ", "g", " ", "1", "\n", "A", "r", "g", "L", "o", "c", "a", "l", "_", "R", "e", "a", "d", " ", "0", "\n", "C", "a", "l", "l", " ", "f", " ", "1", "\n", "R", "e", "t", "\n", "F", "u", "n", "c", "t", "i", "o", "n", " ", "f", " ", "1", "\n", "A", "r", "g", "L", "o", "c", "a", "l", "_", "R", "e", "a", "d", " ", "0", "\n", "R", "e", "t">>, v |-> 12, printed |-> <<"1", "2">>] }
CallTexts == {c.text : c \in CallCases}

\* Texts that reach L0: Jump L0, at once, after a print, after a jump, after a
\* branch, inside a call.
LoopTexts ==
    { <<"L", "0", ":", "\n", "J", "u", "m", "p", " ", "L", "0">>,
      <<"L", "0", ":", " ", "J", "u", "m", "p", " ", "L", "0">>,
      <<"l", "0", ":", " ", "j", "u", "m", "p", " ", "l", "0", " ", "#", " ", "f", "o", "r", "e", "v", "e", "r", "\n">>,
      <<"I", "c", "o", "n", "s", "t", " ", "1", "\n", "I", "n", "t", "r", "i", "n", "s", "i", "c", " ", "p", "r", "i", "n", "t", "_", "i", "n", "t", "\n", "L", "0", ":", "\n", "J", "u", "m", "p", " ", "L", "0", "\n", "I", "n", "t", "r", "i", "n", "s", "i", "c", " ", "e", "x", "i", "t">>,
      <<"J", "u", "m", "p", " ", "L", "1", "\n", "L", "0", ":", "\n", "J", "u", "m", "p", " ", "L", "0", "\n", "L", "1", ":", "\n", "J", "u", "m", "p", " ", "L", "0">>,
      <<"I", "c", "o", "n", "s", "t", " ", "0", "\n", "B", "r", "a", "n", "c", "h", "Z", "e", "r", "o", " ", "L", "0", "\n", "I", "n", "t", "r", "i", "n", "s", "i", "c", " ", "e", "x", "i", "t", "\n", "L", "0", ":", " ", "J", "U", "M", "P", " ", "L", "0">>,
      <<"C", "a", "l", "l", " ", "f", " ", "0", "\n", "I", "n", "t", "r", "i", "n", "s", "i", "c", " ", "e", "x", "i", "t", "\n", "F", "u", "n", "c", "t", "i", "o", "n", " ", "f", " ", "0", "\n", "L", "0", ":", "\n", "J", "u", "m", "p", " ", "L", "0", "\n", "R", "e", "t">> }

\* Texts with a fatal instruction, the offset of that instruction and what
\* is printed before it: an operand missing for Add, for a print, for
\* BranchZero, for a Call, for ARGLOCAL_WRITE; a Jump, a BranchZero on zero
\* and a Call to a name that is not declared; a slot index past the slots of
\* the current frame.
FatalCases ==
    { [text |-> <<"A", "d", "d", "\n", "I", "c", "o", "n", "s", "t", " ", "1", "\n", "I", "n", "t", "r", "i", "n", "s", "i", "c", " ", "p", "r", "i", "n", "t", "_", "i", "n", "t">>, at |-> 1, printed |-> <<>>],
      [text |-> <<"I", "c", "o", "n", "s", "t", " ", "1", "\n", "A", "d", "d", "\n", "I", "n", "t", "r", "i", "n", "s", "i", "c", " ", "p", "r", "i", "n", "t", "_", "i", "n", "t">>, at |-> 2, printed |-> <<>>],
      [text |-> <<"I", "c", "o", "n", "s", "t", " ", "1", "\n", "I", "n", "t", "r", "i", "n", "s", "i", "c", " ", "p", "r", "i", "n", "t", "_", "i", "n", "t", "\n", "A", "d", "d", "\n", "I", "c", "o", "n", "s", "t", " ", "2", "\n", "I", "n", "t", "r", "i", "n", "s", "i", "c", " ", "p", "r", "i", "n", "t", "_", "i", "n", "t">>, at |-> 3, printed |-> <<"1">>],
      [text |-> <<"I", "n", "t", "r", "i", "n", "s", "i", "c", " ", "p", "r", "i", "n", "t", "_", "i", "n", "t", "\n", "I", "c", "o", "n", "s", "t", " ", "3", "\n", "I", "n", "t", "r", "i", "n", "s", "i", "c", " ", "p", "r", "i", "n", "t", "_", "i", "n", "t">>, at |-> 1, printed |-> <<>>],
      [text |-> <<"I", "n", "t", "r", "i", "n", "s", "i", "c", " ", "p", "r", "i", "n", "t", "_", "s", "t", "r", "i", "n", "g", "\n", "I", "n", "t", "r", "i", "n", "s", "i", "c", " ", "e", "x", "i", "t">>, at |-> 1, printed |-> <<>>],
      [text |-> <<"B", "r", "a", "n", "c", "h", "Z", "e", "r", "o", " ", "L", "\n", "L", ":", "\n", "I", "c", "o", "n", "s", "t", " ", "3", "\n", "I", "n", "t", "r", "i", "n", "s", "i", "c", " ", "p", "r", "i", "n", "t", "_", "i", "n", "t">>, at |-> 1, printed |-> <<>>],
      [text |-> <<"J", "u", "m", "p", " ", "M", "\n", "L", ":", "\n", "I", "c", "o", "n", "s", "t", " ", "3", "\n", "I", "n", "t", "r", "i", "n", "s", "i", "c", " ", "p", "r", "i", "n", "t", "_", "i", "n", "t">>, at |-> 1, printed |-> <<>>],
      [text |-> <<"I", "c", "o", "n", "s", "t", " ", "4", "\n", "I", "n", "t", "r", "i", "n", "s", "i", "c", " ", "p", "r", "i", "n", "t", "_", "i", "n", "t", "\n", "J", "U", "M", "P", " ", "l", "\n", "L", ":", "\n", "I", "n", "t", "r", "i", "n", "s", "i", "c", " ", "e", "x", "i", "t">>, at |-> 3, printed |-> <<"4">>],
      [text |-> <<"I", "c", "o", "n", "s", "t", " ", "0", "\n", "B", "r", "a", "n", "c", "h", "Z", "e", "r", "o", " ", "M", "\n", "L", ":", "\n", "I", "c", "o", "n", "s", "t", " ", "3", "\n", "I", "n", "t", "r", "i", "n", "s", "i", "c", " ", "p", "r", "i", "n", "t", "_", "i", "n", "t">>, at |-> 2, printed |-> <<>>],
      [text |-> <<"C", "a", "l", "l", " ", "g", " ", "0", "\n", "I", "c", "o", "n", "s", "t", " ", "3", "\n", "I", "n", "t", "r", "i", "n", "s", "i", "c", " ", "p", "r", "i", "n", "t", "_", "i", "n", "t", "\n", "I", "n", "t", "r", "i", "n", "s", "i", "c", " ", "e", "x", "i", "t", "\n", "F", "u", "n", "c", "t", "i", "o", "n", " ", "f", " ", "0", "\n", "R", "e", "t">>, at |-> 1, printed |-> <<>>],
      [text |-> <<"C", "a", "l", "l", " ", "f", " ", "1", "\n", "I", "n", "t", "r", "i", "n", "s", "i", "c", " ", "e", "x", "i", "t", "\n", "F", "u", "n", "c", "t", "i", "o", "n", " ", "f", " ", "1", "\n", "R", "e", "t">>, at |-> 1, printed |-> <<>>],
      [text |-> <<"I", "c", "o", "n", "s", "t", " ", "5", "\n", "C", "a", "l", "l", " ", "f", " ", "1", "\n", "I", "n", "t", "r", "i", "n", "s", "i", "c", " ", "p", "r", "i", "n", "t", "_", "i", "n", "t", "\n", "I", "n", "t", "r", "i", "n", "s", "i", "c", " ", "e", "x", "i", "t", "\n", "F", "u", "n", "c", "t", "i", "o", "n", " ", "f", " ", "1", "\n", "A", "R", "G", "L", "O", "C", "A", "L", "_", "R", "E", "A", "D", " ", "1", "\n", "R", "e", "t">>, at |-> 6, printed |-> <<>>],
      [text |-> <<"I", "c", "o", "n", "s", "t", " ", "5", "\n", "C", "a", "l", "l", " ", "f", " ", "1", "\n", "I", "n", "t", "r", "i", "n", "s", "i", "c", " ", "p", "r", "i", "n", "t", "_", "i", "n", "t", "\n", "I", "n", "t", "r", "i", "n", "s", "i", "c", " ", "e", "x", "i", "t", "\n", "F", "u", "n", "c", "t", "i", "o", "n", " ", "f", " ", "2", "\n", "A", "R", "G", "L", "O", "C", "A", "L", "_", "R", "E", "A", "D", " ", "7", "\n", "R", "e", "t">>, at |-> 6, printed |-> <<>>],
      [text |-> <<"I", "c", "o", "n", "s", "t", " ", "5", "\n", "C", "a", "l", "l", " ", "f", " ", "1", "\n", "I", "n", "t", "r", "i", "n", "s", "i", "c", " ", "p", "r", "i", "n", "t", "_", "i", "n", "t", "\n", "I", "n", "t", "r", "i", "n", "s", "i", "c", " ", "e", "x", "i", "t", "\n", "F", "u", "n", "c", "t", "i", "o", "n", " ", "f", " ", "1", "\n", "I", "c", "o", "n", "s", "t", " ", "9", "\n", "A", "R", "G", "L", "O", "C", "A", "L", "_", "W", "R", "I", "T", "E", " ", "1", "\n", "A", "R", "G", "L", "O", "C", "A", "L", "_", "R", "E", "A", "D", " ", "0", "\n", "R", "e", "t">>, at |-> 7, printed |-> <<>>],
      [text |-> <<"I", "c", "o", "n", "s", "t", " ", "5", "\n", "C", "a", "l", "l", " ", "f", " ", "1", "\n", "I", "n", "t", "r", "i", "n", "s", "i", "c", " ", "e", "x", "i", "t", "\n", "F", "u", "n", "c", "t", "i", "o", "n", " ", "f", " ", "1", "\n", "A", "R", "G", "L", "O", "C", "A", "L", "_", "W", "R", "I", "T", "E", " ", "0", "\n", "R", "e", "t">>, at |-> 5, printed |-> <<>>],
      [text |-> <<"I", "c", "o", "n", "s", "t", " ", "5", "\n", "C", "a", "l", "l", " ", "f", " ", "1", "\n", "I", "n", "t", "r", "i", "n", "s", "i", "c", " ", "e", "x", "i", "t", "\n", "F", "u", "n", "c", "t", "i", "o", "n", " ", "f", " ", "1", "\n", "A", "R", "G", "L", "O", "C", "A", "L", "_", "R", "E", "A", "D", " ", "0", "\n", "I", "n", "t", "r", "i", "n", "s", "i", "c", " ", "p", "r", "i", "n", "t", "_", "i", "n", "t", "\n", "A", "R", "G", "L", "O", "C", "A", "L", "_", "R", "E", "A", "D", " ", "2", "1", "4", "7", "4", "8", "3", "6", "4", "7", "\n", "R", "e", "t">>, at |-> 7, printed |-> <<"5">>] }
FatalTexts == {c.text : c \in FatalCases}

InitRun ==
    /\ aInput \in SumTexts \cup OtherRunTexts \cup CallTexts \cup LoopTexts
                      \cup FatalTexts
    /\ rPc = "start" /\ rIp = 0 /\ rStack = <<>> /\ rOut = <<>>
    /\ rFrames = <<>> /\ IdleStack
    /\ aPc = "idle" /\ aNode = [k |-> "none"] /\ aProgram = [k |-> "none"]
    /\ aString = [k |-> "none"]
    /\ IdleInterpret /\ IdleCodec

\* assemble::program(aInput); a parse error ends it all.
RunAssemble ==
    /\ rPc = "start"
    /\ aProgram' = program(aInput)
    /\ rPc' = IF aProgram'.k = "ok" THEN "assembled" ELSE "rejected"
    /\ UNCHANGED <<aInput, aPc, aNode, aString, rIp, rStack, rOut, rFrames, svars,
                   ivars, cvars>>

\* interpret(&program), the writer's side: write_bytecode into the engine's
\* input.  What was written before a failed write is in the pipe all the
\* same.
RunEncode ==
    /\ rPc = "assembled"
    /\ cProg' = aProgram.v
    /\ cOut' = write_bytecode(aProgram.v, NewSink)
    /\ rPc' = "encoded"
    /\ UNCHANGED <<cPc, cNext, cDec, rIp, rStack, rOut, rFrames, svars, ivars,
                   avars>>

\* The engine reads its input to the end and decodes it.
RunLoad ==
    /\ rPc = "encoded"
    /\ cDec' = decode_program(cOut.out)
    /\ rPc' = IF cDec'.k = "ok" THEN "running" ELSE "failed"
    /\ rIp' = 1
    /\ UNCHANGED <<cProg, cPc, cNext, cOut, rStack, rOut, rFrames, svars,
                   ivars, avars>>

\* The engine executes the instruction at rIp.
RunStep ==
    /\ rPc = "running"
    /\ rPc' = Exec(cDec.prog, rIp, rStack, rOut, rFrames).pc
    /\ rIp' = Exec(cDec.prog, rIp, rStack, rOut, rFrames).ip
    /\ rStack' = Exec(cDec.prog, rIp, rStack, rOut, rFrames).stack
    /\ rOut' = Exec(cDec.prog, rIp, rStack, rOut, rFrames).out
    /\ rFrames' = Exec(cDec.prog, rIp, rStack, rOut, rFrames).frames
    /\ UNCHANGED <<svars, ivars, cvars, avars>>

\* An orchestrator that gave up on an engine still running.
RunReturnOnTimeout ==
    /\ rPc \in {"running", "done", "failed"}
    /\ rPc' = IF cOut.st # "ok" THEN "panicked"
              ELSE IF rPc = "done" THEN "returned" ELSE "errored"
    /\ UNCHANGED <<rIp, rStack, rOut, rFrames, svars, ivars, cvars, avars>>

\* interpret(&program), the main thread: read_to_string comes back at the
\* end of the engine's output, which is when the engine process is gone,
\* child.join() gives what it left, and the scope ends: the panic of the
\* writer, else the stack of a run that is over, else the error of a run
\* that failed.
RunReturn ==
    /\ rPc \in {"done", "failed"}
    /\ rPc' = IF cOut.st # "ok" THEN "panicked"
              ELSE IF rPc = "done" THEN "returned" ELSE "errored"
    /\ UNCHANGED <<rIp, rStack, rOut, rFrames, svars, ivars, cvars, avars>>

NextRun == RunAssemble \/ RunEncode \/ RunLoad \/ RunStep \/ RunReturn
\* Nothing holds the engine back: once it runs it goes on, instruction after
\* instruction, until the run is over.
SpecRun == InitRun /\ [][NextRun]_vars /\ WF_vars(RunStep)

-----------------------------------------------------------------------------
(* Properties of a run *)

\* Of a text of two constants: nothing is printed but their sum, the run is
\* neither rejected nor failed, and once it is over the sum is printed, once,
\* and the operand stack is empty.
PrintsSum(c) ==
    /\ rOut \in {<<>>, c.sum}
    /\ rPc \notin {"rejected", "failed"}
    /\ rPc \in {"done", "returned"} => (rOut = c.sum /\ rStack = <<>>)

\* C20: the text Iconst 20, Iconst 22, Add, Intrinsic print_int, Intrinsic
\* exit, one per line, assembled, encoded and executed, prints exactly 42
\* and terminates with no further output; for a and b in the 32-bit range
\* the same text with a and b prints a+b, on 32 bits, once.  The text is
\* never rejected and the run never fails, and the engine, once it runs,
\* comes to its end.
C20_PrintsSumOnce ==
    /\ [](\A c \in RunCases : aInput = SumText(c) => PrintsSum(c))
    /\ [](aInput = SumText([a |-> <<"2", "0">>, b |-> <<"2", "2">>, sum |-> <<"4", "2">>]) =>
             (rPc \in {"done", "returned"} => rOut = <<"4", "2">>))
    /\ (aInput \in SumTexts /\ rPc = "running") ~> (rPc = "done")

\* The run of the text with 20 and 22 is over, with 42 printed.
C20_Witness ==
    /\ aInput = SumText([a |-> <<"2", "0">>, b |-> <<"2", "2">>, sum |-> <<"4", "2">>])
    /\ rPc = "done" /\ rOut = <<"4", "2">> /\ rStack = <<>>

-----------------------------------------------------------------------------
(* Properties of calls *)

\* The engine is at a Call it will carry out / at a Ret it will carry out.
AtCall ==
    /\ rPc = "running" /\ rIp <= Len(cDec.prog)
    /\ cDec.prog[rIp].op = "Call"
AtRet ==
    /\ rPc = "running" /\ rIp <= Len(cDec.prog)
    /\ cDec.prog[rIp].op = "Ret"

\* A Call carried out: one frame more, with the slots its Function declares,
\* the first num_args of them the values taken from the caller's stack, and
\* control just past the Function marker of that name.
CallPushesFrame ==
    (AtCall /\ rPc' = "running") =>
        /\ Len(rFrames') = Len(rFrames) + 1
        /\ Take(rFrames', Len(rFrames)) = rFrames
        /\ cDec.prog[rIp' - 1].op = "Function"
        /\ cDec.prog[rIp' - 1].label = cDec.prog[rIp].label
        /\ Len(rFrames'[Len(rFrames')].locals) = ToInt32(cDec.prog[rIp' - 1].num_locs)
        /\ rFrames'[Len(rFrames')].resume = rIp + 1
        /\ Len(rStack') = Len(rStack) - ToInt32(cDec.prog[rIp].num_args)
        /\ rStack' = Take(rStack, Len(rStack'))
        /\ \A j \in 1..ToInt32(cDec.prog[rIp].num_args) :
              rFrames'[Len(rFrames')].locals[j] = rStack[Len(rStack') + j]

\* A Ret carried out: that frame less, control at the instruction after the
\* Call that pushed it, the operand stack as it was.
RetPopsFrame ==
    (AtRet /\ rPc' = "running") =>
        /\ rFrames # <<>>
        /\ rFrames' = Take(rFrames, Len(rFrames) - 1)
        /\ rIp' = rFrames[Len(rFrames)].resume
        /\ cDec.prog[rIp' - 1].op = "Call"
        /\ rStack' = rStack

\* Of a text that pushes v and calls f with it: the run is neither rejected
\* nor failed; back after the Call of the main text, v is on top of the
\* operand stack and the call stack is as deep as before the Call; what is
\* printed is v.
RoundTrip(c) ==
    /\ rPc \notin {"rejected", "failed"}
    /\ (rPc = "running" /\ rIp = 3) => (rFrames = <<>> /\ rStack = <<IntItem(c.v)>>)
    /\ (rPc = "running" /\ rIp = 2) => (rFrames = <<>> /\ rStack = <<IntItem(c.v)>>)
    /\ rOut \in {<<>>, c.printed}
    /\ rPc \in {"done", "returned"} => (rOut = c.printed /\ rFrames = <<>>)

\* C21: Call f n pushes exactly one frame with the local-slot count declared
\* by Function f, moves n values from the caller's operand stack into locals
\* 0..n-1 and continues just past the Function marker; Ret pops exactly that
\* frame and resumes at the instruction after the Call.  So after Call f 1
\* on a stack topped by v, with a body that does ARGLOCAL_READ 0 and Ret, v
\* is on top of the operand stack and the call stack is as deep as before
\* the Call.
C21_CallRoundTrip ==
    /\ [][CallPushesFrame /\ RetPopsFrame]_vars
    /\ [](\A c \in CallCases : aInput = c.text => RoundTrip(c))
    /\ (aInput \in CallTexts /\ rPc = "running" /\ rIp = 2) ~> (rFrames # <<>>)
    /\ (aInput \in CallTexts /\ rFrames # <<>>) ~> (rPc = "done")

\* Back from the call of f with 7: 7 on top, no frame left.
C21_Witness ==
    /\ aInput = <<"I", "c", "o", "n", "s", "t", " ", "7", "\n", "C", "a", "l", "l", " ", "f", " ", "1", "\n", "I", "n", "t", "r", "i", "n", "s", "i", "c", " ", "p", "r", "i", "n", "t", "_", "i", "n", "t", "\n", "I", "n", "t", "r", "i", "n", "s", "i", "c", " ", "e", "x", "i", "t", "\n", "F", "u", "n", "c", "t", "i", "o", "n", " ", "f", " ", "1", "\n", "A", "R", "G", "L", "O", "C", "A", "L", "_", "R", "E", "A", "D", " ", "0", "\n", "R", "e", "t">>
    /\ rPc = "running" /\ rIp = 3
    /\ rStack = <<IntItem(7)>> /\ rFrames = <<>>

-----------------------------------------------------------------------------
(* Properties of a run that loops *)

\* interpret() is over: it returned, with a stack or an error, or panicked.
InterpretOver == rPc \in {"returned", "errored", "panicked"}

\* The engine is at the Jump of L0: Jump L0.
AtLoopJump ==
    /\ rPc = "running" /\ 1 < rIp /\ rIp <= Len(cDec.prog)
    /\ cDec.prog[rIp].op = "Jump" /\ cDec.prog[rIp - 1].op = "Label"
    /\ cDec.prog[rIp - 1].label = cDec.prog[rIp].label

\* C22: a program that reaches L0: Jump L0 is either rejected before
\* execution or never completes: the engine has no timeout and nothing
\* cancels it, so the run never reaches its normal completion (nor a failure)
\* and interpret() does not return for that program.  Once at the Jump the
\* engine is at the Jump or at its Label for ever, and every run that starts
\* gets there.
C22_LoopNeverCompletes ==
    /\ [](aInput \in LoopTexts =>
             (rPc = "rejected" \/ (rPc \notin {"done", "failed"} /\ ~InterpretOver)))
    /\ [][AtLoopJump => (rPc' = "running" /\ rIp' = rIp - 1)]_vars
    /\ [][(aInput \in LoopTexts /\ rPc = "running") => rPc' = "running"]_vars
    /\ (aInput \in LoopTexts /\ rPc = "running") ~> AtLoopJump

\* The engine at the Jump of L0: Jump L0, 1 printed before.
C22_Witness ==
    /\ aInput = <<"I", "c", "o", "n", "s", "t", " ", "1", "\n", "I", "n", "t", "r", "i", "n", "s", "i", "c", " ", "p", "r", "i", "n", "t", "_", "i", "n", "t", "\n", "L", "0", ":", "\n", "J", "u", "m", "p", " ", "L", "0", "\n", "I", "n", "t", "r", "i", "n", "s", "i", "c", " ", "e", "x", "i", "t">>
    /\ AtLoopJump /\ rOut = <<"1">>

-----------------------------------------------------------------------------
(* Properties of fatal errors *)

\* The operands the instruction takes from the operand stack.
Needs(i) ==
    CASE i.op = "Add" -> 2
      [] i.op \in {"BranchZero", "ArgLocalWrite"} -> 1
      [] i.op = "Intrinsic" -> IF i.intrinsic = "Exit" THEN 0 ELSE 1
      [] i.op = "Call" -> ToInt32(i.num_args)
      [] OTHER -> 0

\* The instruction refers to a name that is not declared: a Jump to no
\* Label, a Call to no Function.  (A BranchZero refers to its Label when it
\* branches: see Underflow for the operand and FatalCases for the branch.)
Undeclared(prog, i) ==
    \/ i.op = "Jump" /\ LabelAddress(prog, i.label, 1) = 0
    \/ i.op = "Call" /\ FunctionAddress(prog, i.label, 1) = 0

\* The instruction addresses a slot the current frame does not have.
OutOfFrame(i, frames) ==
    /\ i.op \in {"ArgLocalRead", "ArgLocalWrite"}
    /\ frames # <<>>
    /\ ToInt32(i.index) >= Len(frames[Len(frames)].locals)

\* The engine is at an instruction that cannot be carried out.
AtFatal ==
    /\ rPc = "running" /\ rIp <= Len(cDec.prog)
    /\ \/ Len(rStack) < Needs(cDec.prog[rIp])
       \/ Undeclared(cDec.prog, cDec.prog[rIp])
       \/ OutOfFrame(cDec.prog[rIp], rFrames)

\* The operands the instruction at rIp takes.
Taken == IF rIp <= Len(cDec.prog) THEN Needs(cDec.prog[rIp]) ELSE 0

\* Nothing of the machine moves.
MachineStill ==
    /\ rIp' = rIp /\ rStack' = rStack /\ rOut' = rOut /\ rFrames' = rFrames

-----------------------------------------------------------------------------
(* The engine's stack handed back: impl TryFrom<*mut stack_node> for        *)
(* ProgramStack.  The linked stack is a sequence of nodes from its head,    *)
(* the top of the stack; a string is the bytes before its terminator.       *)

MaxStack == 3

\* CStr::to_str: are the bytes UTF-8?  Of the bytes of the model: the ASCII
\* ones, and 195 169 for U+E9.
RECURSIVE valid_utf8(_)
valid_utf8(b) ==
    IF b = <<>> THEN TRUE
    ELSE IF b[1] < 128 THEN valid_utf8(Tail(b))
    ELSE IF Len(b) >= 2 /\ b[1] = 195 /\ b[2] = 169 THEN valid_utf8(Drop(b, 2))
    ELSE FALSE

IntNode(i) == [kind |-> "stack_int", stack_int |-> i]
StrNode(b) == [kind |-> "stack_str", stack_str |-> b]

\* The nodes the engine leaves: integers of 32 bits, strings that are UTF-8
\* (empty, ASCII, two bytes for one character) and strings that are not (a
\* byte that begins nothing, a first byte without its second).
StackNodes ==
    { IntNode(0), IntNode(-1), IntNode(2147483647),
      StrNode(<<>>), StrNode(<<97>>), StrNode(<<195, 169>>),
      StrNode(<<255>>), StrNode(<<97, 195>>) }

\* The item of a node: Int(i as i64), or String(c_str.to_str()?.to_owned()).
Item(curr) ==
    IF curr.kind = "stack_int" THEN [k |-> "ok", v |-> IntItem(curr.stack_int)]
    ELSE IF valid_utf8(curr.stack_str)
    THEN [k |-> "ok", v |-> StrItem(from_utf8(curr.stack_str))]
    ELSE [k |-> "Utf8Error"]

\* stack_items.push_back(item): the items in the order of the walk.
push_back(items, item) == Append(items, item)

\* stack_items.push_front(item)
push_front(items, item) == <<item>> \o items

InitStack ==
    /\ sList \in SeqsUpTo(StackNodes, MaxStack)
    /\ sPc = "walk" /\ sCurr = 1 /\ sItems = <<>> /\ sFreed = 0
    /\ sResult = [k |-> "none"]
    /\ rPc = "idle" /\ rIp = 0 /\ rStack = <<>> /\ rOut = <<>> /\ rFrames = <<>>
    /\ IdleInterpret /\ IdleCodec /\ IdleAssembler

\* The body of `while curr != null_mut()`: the node's item on the front of
\* stack_items and curr on the next node, or `?` returning the error of
\* to_str at once.
ConvertNode ==
    /\ sPc = "walk" /\ sCurr <= Len(sList)
    /\ IF Item(sList[sCurr]).k = "ok"
       THEN /\ sItems' = push_front(sItems, Item(sList[sCurr]).v)
            /\ sCurr' = sCurr + 1
            /\ UNCHANGED <<sPc, sResult>>
       ELSE /\ sResult' = [k |-> "Err"]
            /\ sPc' = "returned"
            /\ UNCHANGED <<sItems, sCurr>>
    /\ UNCHANGED <<sList, sFreed, rPc, rIp, rStack, rOut, rFrames, ivars, cvars,
                   avars>>

\* bindings::free_stack(c_stack_head), once curr is null.
ConvertFree ==
    /\ sPc = "walk" /\ sCurr > Len(sList)
    /\ sFreed' = sFreed + 1
    /\ sPc' = "collect"
    /\ UNCHANGED <<sList, sCurr, sItems, sResult, rPc, rIp, rStack, rOut,
                   rFrames, ivars, cvars, avars>>

\* Ok(ProgramStack(Vec::from(stack_items)))
ConvertCollect ==
    /\ sPc = "collect"
    /\ sResult' = [k |-> "Ok", v |-> sItems]
    /\ sPc' = "returned"
    /\ UNCHANGED <<sList, sCurr, sItems, sFreed, rPc, rIp, rStack, rOut,
                   rFrames, ivars, cvars, avars>>

NextStack == ConvertNode \/ ConvertFree \/ ConvertCollect
SpecStack == InitStack /\ [][NextStack]_vars

-----------------------------------------------------------------------------
(* Properties of the stack handed back *)

\* The Vec holds the list's items, the head's last and the bottom's first.
ReversedCopy ==
    /\ sResult.k = "Ok"
    /\ Len(sResult.v) = Len(sList)
    /\ \A j \in 1..Len(sList) :
          /\ sResult.v[Len(sList) - j + 1].kind =
                (IF sList[j].kind = "stack_int" THEN "Int" ELSE "String")
          /\ sResult.v[Len(sList) - j + 1].val =
                (IF sList[j].kind = "stack_int" THEN sList[j].stack_int
                 ELSE from_utf8(sList[j].stack_str))

AllUtf8 == \A j \in 1..Len(sList) : Item(sList[j]).k = "ok"
-----------------------------------------------------------------------------
(* Properties of the engine's input pipe *)

\* No write to the pipe has failed.
NoWriteFailed == failed \cap {"write", "flush_on_drop"} = {}

\* The engine, reading, is at end-of-stream: nothing in the pipe, and the
\* pipe closed.
EofSeen == enginePc = "reading" /\ inPipe = 0 /\ inClosed

\* C25: in interpret() the engine's input pipe is closed by the writer
\* thread after, and only after, the last byte of the encoded program has
\* been written (when no write fails): a closed pipe has been given every
\* byte, none is left in the BufWriter.  So the engine, which reads its input
\* to end-of-stream before it runs, is at end-of-stream exactly when it has
\* read the complete bytecode, and it is never left waiting for more input:
\* the writer always comes to close the pipe and the engine always comes to
\* leave its reading.
C25_PipeClosedAfterLastByte ==
    /\ []((inClosed /\ emitted.st = "ok" /\ NoWriteFailed) =>
             /\ encoded = Len(emitted.out) /\ wbuf = 0
             /\ inPipe + engRead = Len(emitted.out))
    /\ []((EofSeen /\ emitted.st = "ok") => engRead = Len(emitted.out))
    /\ []((enginePc = "running" /\ emitted.st = "ok") => engRead = Len(emitted.out))
    /\ (writerPc = "encode") ~> inClosed
    /\ (enginePc = "reading") ~> (enginePc # "reading")

\* A program longer than the pipe and the BufWriter together, read whole by
\* the engine, which is at end-of-stream.
C25_Witness ==
    /\ Len(emitted.out) > PipeCap + BufCap
    /\ emitted.st = "ok" /\ NoWriteFailed
    /\ EofSeen /\ engRead = Len(emitted.out)

-----------------------------------------------------------------------------
(* write_bytecode step by step: an instruction per turn of its loop, into a *)
(* sink that takes it all or fails after so many bytes.                     *)

MaxWriteLen == 2
MaxRoom == 28

\* Instructions of 4, 8, 10 and 14 bytes, and two whose operand does not fit
\* in 32 bits, after the tag and after the label.
WriteInstrs ==
    { Nop, Ret, Iconst(I64(5)), Sconst(<<"a">>), Call(<<"f">>, I64(1)),
      Iconst(TwoPow31), Function(<<"f">>, TwoPow31) }

InitWrite ==
    /\ cProg \in SeqsUpTo(WriteInstrs, MaxWriteLen)
    /\ cOut \in {NewSink} \cup {SinkOfRoom(n) : n \in 0..MaxRoom}
    /\ cPc = "loop" /\ cNext = 0 /\ cDec = [k |-> "none"]
    /\ IdleInterpret /\ IdleAssembler /\ IdleRun

\* A turn of the loop that undid what it wrote of the failed instruction.
WriteNextRolledBack ==
    /\ cPc = "loop" /\ cNext < Len(cProg)
    /\ IF WriteInstruction(cProg[cNext + 1], cOut).st = "ok"
       THEN /\ cOut' = WriteInstruction(cProg[cNext + 1], cOut)
            /\ cNext' = cNext + 1
            /\ UNCHANGED cPc
       ELSE /\ cOut' = [cOut EXCEPT !.st = WriteInstruction(cProg[cNext + 1], cOut).st]
            /\ cPc' = IF cOut'.st = "panic" THEN "panicked" ELSE "returned"
            /\ UNCHANGED cNext
    /\ UNCHANGED <<cProg, cDec, ivars, avars, rvars>>

\* for node in program { node.write_bytecode(out)?; }: one turn.  An error
\* of the sink is returned at once, a panic leaves by unwinding; what was
\* written stays written.
WriteNext ==
    /\ cPc = "loop" /\ cNext < Len(cProg)
    /\ cOut' = WriteInstruction(cProg[cNext + 1], cOut)
    /\ IF cOut'.st = "ok"
       THEN cNext' = cNext + 1 /\ UNCHANGED cPc
       ELSE /\ cPc' = IF cOut'.st = "panic" THEN "panicked" ELSE "returned"
            /\ UNCHANGED cNext
    /\ UNCHANGED <<cProg, cDec, ivars, avars, rvars>>

\* Ok(()) after the last instruction.
WriteReturn ==
    /\ cPc = "loop" /\ cNext = Len(cProg)
    /\ cPc' = "returned"
    /\ UNCHANGED <<cProg, cNext, cOut, cDec, ivars, avars, rvars>>

NextWrite == WriteNext \/ WriteReturn
SpecWrite == InitWrite /\ [][NextWrite]_vars

-----------------------------------------------------------------------------
(* Properties of write_bytecode step by step *)

IsPrefixOf(p, q) == Len(p) <= Len(q) /\ p = SubSeq(q, 1, Len(p))

\* The encoding of one instruction on its own; of one whose operand does not
\* fit, what is written of it before the panic.
Encoding(i) == WriteInstruction(i, NewSink)

\* The encodings of the instructions one after the other, with nothing
\* between them, up to the first that cannot be encoded.
RECURSIVE Concatenation(_)
Concatenation(prog) ==
    IF prog = <<>> THEN <<>>
    ELSE IF Encoding(Head(prog)).st = "ok"
    THEN Encoding(Head(prog)).out \o Concatenation(Tail(prog))
    ELSE Encoding(Head(prog)).out

\* The opcode tag of the instruction, on its own.
TagOf(i) == WriteTag(i, NewSink).out

\* The encoding of the instruction after the cNext written ones failed.
WriteFailed == cPc = "panicked" \/ (cPc = "returned" /\ cOut.st = "err")

\* In order, nothing between, and at every moment a prefix.
InOrderAndPrefix ==
    /\ IsPrefixOf(cOut.out, Concatenation(cProg))
    /\ cOut.st = "ok" => cOut.out = Concatenation(Take(cProg, cNext))
    /\ (cPc = "returned" /\ cOut.st = "ok") =>
          (cNext = Len(cProg) /\ cOut.out = Concatenation(cProg))
    /\ cProg = <<>> => cOut.out = <<>>

\* The instructions before the failed one and its tag are written.
TagOfFailedWritten ==
    IsPrefixOf(Concatenation(Take(cProg, cNext)) \o TagOf(cProg[cNext + 1]), cOut.out)

\* C26 (as claimed): write_bytecode emits the encodings of the instructions
\* in program order with nothing between them, at every moment the bytes
\* written form a prefix of that concatenation, and when encoding
\* instruction k fails the bytes of the instructions before k and the opcode
\* tag of k have been written.
C26_TagOfFailedWritten ==
    /\ InOrderAndPrefix
    /\ WriteFailed => TagOfFailedWritten

\* C26 (amended): the same when the encoding of k fails because an operand
\* does not fit; when it fails because the sink fails, the bytes of the
\* instructions before k are written and, of k, the bytes the sink took
\* before it failed, which may stop short of the tag's last byte.  Nothing
\* written is rolled back.
C26_WrittenStaysWritten ==
    /\ InOrderAndPrefix
    /\ cPc = "panicked" => TagOfFailedWritten
    /\ (cPc = "returned" /\ cOut.st = "err") =>
          /\ IsPrefixOf(Concatenation(Take(cProg, cNext)), cOut.out)
          /\ cOut.out = Take(Concatenation(cProg), cOut.room)
          /\ Len(cOut.out) < Len(Concatenation(Take(cProg, cNext + 1)))

\* After a Call written whole, an Iconst that does not fit: its tag is
\* written after the 14 bytes of the Call.
C26_Witness ==
    /\ cProg = <<Call(<<"f">>, I64(1)), Iconst(TwoPow31)>>
    /\ cPc = "panicked" /\ cNext = 1 /\ Len(cOut.out) = 18

-----------------------------------------------------------------------------
(* Properties of RESERVE name size (null) *)

\* The encoding of ReserveInt{name: x}: the tag of Reserve, the name with
\* its length and terminator, the length 0 of no string, the size 4.
ReserveXBytes ==
    <<17, 0, 0, 0, 2, 0, 0, 0, 120, 0, 0, 0, 0, 0, 4, 0, 0, 0>>

\* Whatever the size, the node is ReserveInt{x}, the program is that one
\* instruction, and its encoding carries the size 4.
SizeDiscarded ==
    /\ aPc # "start" => aNode = Ok(<<>>, ReserveInt(<<"x">>))
    /\ aPc \in {"done", "string", "encoded"} =>
          aProgram = [k |-> "ok", v |-> <<ReserveInt(<<"x">>)>>]
    /\ aPc = "encoded" => cOut = [out |-> ReserveXBytes, st |-> "ok"]

\* What is no unsigned integer is rejected.
SizeRejected ==
    /\ aPc # "start" => aNode.k = "err"
    /\ aPc \in {"done", "string", "encoded"} => aProgram.k = "err"
    /\ aPc # "encoded"

\* C27: for RESERVE name size (null) the declared size is validated as an
\* unsigned integer but otherwise discarded: every size gives the same
\* ReserveInt{name}, and its encoding always carries the size 4, so
\* RESERVE x 10 (null) and RESERVE x 4 (null) assemble and encode
\* identically.
C27_NullSizeDiscarded ==
    /\ aInput \in NullSizeInputs => SizeDiscarded
    /\ aInput \in BadSizeInputs => SizeRejected

\* RESERVE x 10 (null), encoded with the size 4.
C27_Witness ==
    /\ aInput = <<"R", "E", "S", "E", "R", "V", "E", " ", "x", " ", "1", "0", " ", "(", "n", "u", "l", "l", ")">>
    /\ aPc = "encoded" /\ cProg = <<ReserveInt(<<"x">>)>>
    /\ cOut.out = ReserveXBytes

-----------------------------------------------------------------------------
(* Properties of a keyword with its operand right after it *)

\* The text is that instruction, whole: for node and for program.
IsInstruction(i) ==
    /\ aPc # "start" => aNode = Ok(<<>>, i)
    /\ aPc \in {"done", "string", "encoded"} => aProgram = [k |-> "ok", v |-> <<i>>]

\* C28: the separator between an opcode keyword and its operand may be
\* empty: for every opcode that takes an operand, the keyword with its
\* operand right after it parses to the same instruction as with one space
\* between them (ICONST5 is Iconst(5), JUMPL0 is Jump(L0), READx is Read(x)),
\* and an identifier with a colon that starts with READ, WRITE or ICONST
\* followed by a valid operand is taken by node as that instruction, the
\* colon left over, not as a label; program, which wants the whole text,
\* makes no label of it either and rejects it.
C28_SeparatorMayBeEmpty ==
    \A c \in GaplessCases : \A w \in Spellings(c) :
        /\ aInput = w \o c.operand => IsInstruction(c.instr)
        /\ aInput = w \o <<" ">> \o c.operand => IsInstruction(c.instr)
        /\ (c \in ColonCases /\ aInput = w \o c.operand \o <<":">> /\ aPc # "start")
              => aNode = Ok(<<":">>, c.instr)
        /\ (c \in ColonCases /\ aInput = w \o c.operand \o <<":">>
               /\ aPc \in {"done", "string", "encoded"})
              => aProgram = ParseError

\* JUMPL0 parsed by node and by program: Jump(L0).
C28_Witness ==
    /\ aInput = <<"J", "U", "M", "P", "L", "0">>
    /\ aPc = "done"
    /\ aNode = Ok(<<>>, Jump(<<"L", "0">>))
    /\ aProgram = [k |-> "ok", v |-> <<Jump(<<"L", "0">>)>>]

====
